---------------------------- MODULE Spec2Model ----------------------------
(***************************************************************************)
(* A model of the ftml text pipeline core: the preprocessor, the include   *)
(* resolver, the lexer's token extraction and the token parser.            *)
(*                                                                         *)
(* Texts are sequences of characters (one-character strings); the          *)
(* characters outside ASCII that typography produces carry names           *)
(* ("LSQ" for U+2018 and so on).  Byte offsets of the source are 0-based   *)
(* and ranges are half open; sequences here are 1-based, so the byte       *)
(* range s..e of a text t is SubSeq(t, s + 1, e).                          *)
(***************************************************************************)
EXTENDS Integers, Sequences, FiniteSets, TLC

VARIABLES
    \* preprocessor: the text being transformed and the texts it went through
    ppText, ppTrail,
    \* lexer: the input, the extracted tokens and where extraction stands
    lexText, lexTokens, lexPc,
    \* include resolver: see the include section
    incInput, incPc, incRanges, incIncludes, incFetched, incOutput, incPages,
    incIdx, incCalls, incResult,
    \* parser: see the parser section
    pTokens, pPos, pOutput, pErrors, pStyles, pPc, pTree, pLast,
    \* one operation of the parser on its own: see the section on rules
    rTokens, rPos, rOp, rOut, rPc,
    \* the parser with the blocks it is in: see the section on nested blocks
    nText, nTokens, nPos, nStack, nOutput, nWarnings, nTree, nPc, nError

ppVars == <<ppText, ppTrail>>
lexVars == <<lexText, lexTokens, lexPc>>
incVars == <<incInput, incPc, incRanges, incIncludes, incFetched, incOutput,
             incPages, incIdx, incCalls, incResult>>
parseVars == <<pTokens, pPos, pOutput, pErrors, pStyles, pPc, pTree, pLast>>
ruleVars == <<rTokens, rPos, rOp, rOut, rPc>>
nestVars == <<nText, nTokens, nPos, nStack, nOutput, nWarnings, nTree, nPc, nError>>
vars == <<ppVars, lexVars, incVars, parseVars, ruleVars, nestVars>>

---------------------------------------------------------------------------
(* Sequences of characters *)

Min(S) == CHOOSE x \in S : \A y \in S : x <= y
Max(S) == CHOOSE x \in S : \A y \in S : x >= y

\* The characters matched by the regex class \s that the model's texts hold.
IsSpace(c) == c \in {" ", "\t", "\n", "\r"}

\* Whether pattern pat occurs in text at 1-based position i.
At(text, i, pat) ==
    /\ i >= 1
    /\ i + Len(pat) - 1 <= Len(text)
    /\ SubSeq(text, i, i + Len(pat) - 1) = pat

\* str::find : the first position of pat in text, 0 when there is none.
Find(text, pat) ==
    LET hits == {i \in 1..Len(text) : At(text, i, pat)}
    IN  IF hits = {} THEN 0 ELSE Min(hits)

\* String::replace_range over the positions s..e-1 (1-based, e exclusive).
ReplaceRange(text, s, e, rep) ==
    SubSeq(text, 1, s - 1) \o rep \o SubSeq(text, e, Len(text))

\* ASCII lower-casing of the letters the model's texts hold in upper case.
Lower(c) ==
    CASE c = "I" -> "i"
      [] c = "C" -> "c"
      [] c = "S" -> "s"
      [] c = "B" -> "b"
      [] c = "A" -> "a"
      [] c = "M" -> "m"
      [] c = "F" -> "f"
      [] c = "T" -> "t"
      [] OTHER -> c

LowerText(text) == [k \in 1..Len(text) |-> Lower(text[k])]

\* str::eq_ignore_ascii_case.
eq_ignore_ascii_case(a, b) ==
    /\ Len(a) = Len(b)
    /\ \A k \in 1..Len(a) : Lower(a[k]) = Lower(b[k])

\* Case-insensitive At.
AtNoCase(text, i, pat) ==
    /\ i >= 1
    /\ i + Len(pat) - 1 <= Len(text)
    /\ \A k \in 1..Len(pat) : Lower(text[i + k - 1]) = Lower(pat[k])

RECURSIVE Concat(_)
Concat(ss) == IF ss = <<>> THEN <<>> ELSE Head(ss) \o Concat(Tail(ss))

\* All sequences of at most n members of S.
SeqsUpTo(S, n) == UNION {[1..k -> S] : k \in 0..n}

---------------------------------------------------------------------------
(* Preprocessor: preproc/misc.rs and preproc/typography.rs *)

\* The characters typography writes.
LSQ == "LSQ"      \* U+2018
RSQ == "RSQ"      \* U+2019
LDQ == "LDQ"      \* U+201C
RDQ == "RDQ"      \* U+201D
LOWDQ == "LOWDQ"  \* U+201E
LAQ == "LAQ"      \* U+00AB
RAQ == "RAQ"      \* U+00BB
ELL == "ELL"      \* U+2026
\* The grave accent, U+0060, which opens a quote for typography.
BQ == "BQ"

\* ^ and $ of a multi-line regex, at the 1-based position i (for $, the
\* position just after the match).
LineStart(text, i) == i = 1 \/ text[i - 1] = "\n"
LineEnd(text, i) == i = Len(text) + 1 \/ text[i] = "\n"

AllSpace(text, s, e) == \A k \in s..(e - 1) : IsSpace(text[k])

\* The end (exclusive) of the run of \s characters that starts at i.
SpaceRunEnd(text, i) ==
    Min({j \in i..(Len(text) + 1) : j = Len(text) + 1 \/ ~IsSpace(text[j])})

NewlinesIn(text, s, e) == Cardinality({k \in s..(e - 1) : text[k] = "\n"})

\* Regex::find for the five regexes of misc.rs: the leftmost match as
\* <<start, end>> (end exclusive), <<0, 0>> when there is none.
\*   COMMENT            \[!--.*--\]      dot matches newline, greedy
\*   WHITESPACE         ^\s+$            multi-line
\*   COMPRESS_NEWLINES  (?:\n\s*){3,}
\*   LEADING_NEWLINES   ^\n+
\*   TRAILING_NEWLINES  \n+$
COMMENT(text) ==
    LET closes(i) == {j \in (i + 4)..Len(text) : At(text, j, <<"-", "-", "]">>)}
        starts == {i \in 1..Len(text) :
                     At(text, i, <<"[", "!", "-", "-">>) /\ closes(i) # {}}
    IN  IF starts = {} THEN <<0, 0>>
        ELSE <<Min(starts), Max(closes(Min(starts))) + 3>>

WHITESPACE(text) ==
    LET ends(i) == {j \in (i + 1)..(Len(text) + 1) :
                      AllSpace(text, i, j) /\ LineEnd(text, j)}
        starts == {i \in 1..Len(text) : LineStart(text, i) /\ ends(i) # {}}
    IN  IF starts = {} THEN <<0, 0>>
        ELSE <<Min(starts), Max(ends(Min(starts)))>>

COMPRESS_NEWLINES(text) ==
    LET starts == {i \in 1..Len(text) :
                     /\ text[i] = "\n"
                     /\ NewlinesIn(text, i, SpaceRunEnd(text, i)) >= 3}
    IN  IF starts = {} THEN <<0, 0>>
        ELSE <<Min(starts), SpaceRunEnd(text, Min(starts))>>

LEADING_NEWLINES(text) ==
    IF Len(text) >= 1 /\ text[1] = "\n"
    THEN <<1, Min({j \in 2..(Len(text) + 1) :
                     j = Len(text) + 1 \/ text[j] # "\n"})>>
    ELSE <<0, 0>>

TRAILING_NEWLINES(text) ==
    LET starts == {i \in 1..Len(text) :
                     \A k \in i..Len(text) : text[k] = "\n"}
    IN  IF starts = {} THEN <<0, 0>> ELSE <<Min(starts), Len(text) + 1>>

RegexFind(regex, text) ==
    CASE regex = "COMMENT" -> COMMENT(text)
      [] regex = "WHITESPACE" -> WHITESPACE(text)
      [] regex = "COMPRESS_NEWLINES" -> COMPRESS_NEWLINES(text)
      [] regex = "LEADING_NEWLINES" -> LEADING_NEWLINES(text)
      [] regex = "TRAILING_NEWLINES" -> TRAILING_NEWLINES(text)

\* str_replace that replaces the first occurrence only.
str_replace_once(text, pattern, replacement) ==
    IF Find(text, pattern) = 0 THEN text
    ELSE ReplaceRange(text, Find(text, pattern),
                      Find(text, pattern) + Len(pattern), replacement)

\* misc.rs str_replace: replace the first occurrence until there is none.
RECURSIVE str_replace(_, _, _)
str_replace(text, pattern, replacement) ==
    LET idx == Find(text, pattern)
    IN  IF idx = 0 THEN text
        ELSE str_replace(ReplaceRange(text, idx, idx + Len(pattern), replacement),
                         pattern, replacement)

\* misc.rs regex_replace: replace the leftmost match until there is none.
RECURSIVE regex_replace(_, _, _)
regex_replace(text, regex, replacement) ==
    LET mtch == RegexFind(regex, text)
    IN  IF mtch[1] = 0 THEN text
        ELSE regex_replace(ReplaceRange(text, mtch[1], mtch[2], replacement),
                           regex, replacement)

\* misc.rs substitute.
MiscSubstitute(text) ==
    LET t1 == regex_replace(text, "COMMENT", <<>>)
        t2 == str_replace(t1, <<"\r", "\n">>, <<"\n">>)
        t3 == str_replace(t2, <<"\r">>, <<"\n">>)
        t4 == regex_replace(t3, "WHITESPACE", <<>>)
        t5 == str_replace(t4, <<"\\", "\n">>, <<>>)
        t6 == str_replace(t5, <<"\t">>, <<" ", " ", " ", " ">>)
        t7 == regex_replace(t6, "COMPRESS_NEWLINES", <<"\n", "\n">>)
        t8 == regex_replace(t7, "LEADING_NEWLINES", <<>>)
    IN  regex_replace(t8, "TRAILING_NEWLINES", <<>>)

\* Regex::captures for open(.*?)close, where . matches no newline: the
\* leftmost opener that a closer follows on the same line, and the nearest
\* such closer.  <<start, closer>>, <<0, 0>> when there is none.
SurroundFind(text, open, close) ==
    LET closes(i) == {j \in (i + Len(open))..Len(text) :
                        /\ At(text, j, close)
                        /\ \A k \in (i + Len(open))..(j - 1) : text[k] # "\n"}
        starts == {i \in 1..Len(text) : At(text, i, open) /\ closes(i) # {}}
    IN  IF starts = {} THEN <<0, 0>>
        ELSE <<Min(starts), Min(closes(Min(starts)))>>

\* Replacer::RegexSurround.
RECURSIVE RegexSurround(_, _, _, _, _)
RegexSurround(text, open, close, begin, end) ==
    LET m == SurroundFind(text, open, close)
        content == SubSeq(text, m[1] + Len(open), m[2] - 1)
    IN  IF m[1] = 0 THEN text
        ELSE RegexSurround(
                 ReplaceRange(text, m[1], m[2] + Len(close),
                              <<begin>> \o content \o <<end>>),
                 open, close, begin, end)

\* Regex::captures for ELLIPSIS, (?:\.\.\.|\. \. \.)
EllipsisFind(text) ==
    LET len(i) == IF At(text, i, <<".", ".", ".">>) THEN 3
                  ELSE IF At(text, i, <<".", " ", ".", " ", ".">>) THEN 5
                  ELSE 0
        starts == {i \in 1..Len(text) : len(i) > 0}
    IN  IF starts = {} THEN <<0, 0>>
        ELSE <<Min(starts), Min(starts) + len(Min(starts))>>

\* Replacer::RegexReplace, for ELLIPSIS.
RECURSIVE RegexReplace(_, _)
RegexReplace(text, replacement) ==
    LET m == EllipsisFind(text)
    IN  IF m[1] = 0 THEN text
        ELSE RegexReplace(ReplaceRange(text, m[1], m[2], replacement), replacement)

\* typography.rs substitute.
TypographySubstitute(text) ==
    LET t1 == RegexSurround(text, <<BQ, BQ>>, <<"'", "'">>, LDQ, RDQ)
        t2 == RegexSurround(t1, <<",", ",">>, <<"'", "'">>, LOWDQ, RDQ)
        t3 == RegexSurround(t2, <<BQ>>, <<"'">>, LSQ, RSQ)
        t4 == str_replace(t3, <<"<", "<">>, <<LAQ>>)
        t5 == str_replace(t4, <<">", ">">>, <<RAQ>>)
    IN  RegexReplace(t5, <<ELL>>)

\* preprocess: the miscellaneous pass, then typography.
preprocess(text) == TypographySubstitute(MiscSubstitute(text))

\* The pieces the preprocessor's inputs are put together from.
PreprocPieces ==
    { <<" ">>, <<"\\">>, <<"\n">>, <<"\t">>, <<"\r">>, <<"a">>,
      <<BQ>>, <<"'">>, <<".">>,
      <<"[", "!", "-", "-">>, <<"-", "-", "]">>,
      <<"[", "!", "-", "-", "-", "-", "]">>,
      <<"a", "\n", "\n">> }

MaxPreprocPieces == 3
MaxPreprocRuns == 2

PreprocInputs == {Concat(ps) : ps \in SeqsUpTo(PreprocPieces, MaxPreprocPieces)}

InitPreprocIdle ==
    /\ ppText = <<>>
    /\ ppTrail = <<>>

InitPreproc ==
    /\ ppText \in PreprocInputs
    /\ ppTrail = <<ppText>>

\* One call of preprocess on the text.
Preprocess ==
    /\ Len(ppTrail) >= 1
    /\ Len(ppTrail) <= MaxPreprocRuns
    /\ ppText' = preprocess(ppText)
    /\ ppTrail' = Append(ppTrail, ppText')
    /\ UNCHANGED <<lexVars, incVars, parseVars, ruleVars, nestVars>>

---------------------------------------------------------------------------
(* Lexer: parse/token/mod.rs.  The pest grammar the lexer is generated     *)
(* from is modelled after the token grammar the specification gives.       *)

\* The characters of [A-Za-z0-9] that the model's texts hold.
AlnumChars ==
    {"a", "b", "1", "m", "o", "d", "u", "l", "e", "C", "S", "c", "s",
     "B", "k", "i", "n", "v", "f", "p", "A", "M", "F", "h", "t"}

IsAlnum(c) == c \in AlnumChars

\* The end (exclusive) of the run of characters satisfying P that starts at i.
RunEnd(text, i, P(_)) ==
    Min({j \in i..(Len(text) + 1) : j = Len(text) + 1 \/ ~P(text[j])})

IsNewline(c) == c = "\n"
IsBlank(c) == c = " "

\* The grammar's literal tokens, the more specific first.
LexerLiterals ==
    << <<"left_comment", <<"[", "!", "-", "-">> >>,
       <<"right_comment", <<"-", "-", "]">> >>,
       <<"left_link", <<"[", "[", "[">> >>,
       <<"left_block_end", <<"[", "[", "/">> >>,
       <<"left_block_special", <<"[", "[", "*">> >>,
       <<"left_block", <<"[", "[">> >>,
       <<"left_bracket", <<"[">> >>,
       <<"right_link", <<"]", "]", "]">> >>,
       <<"right_block", <<"]", "]">> >>,
       <<"right_bracket", <<"]">> >>,
       <<"bold", <<"*", "*">> >>,
       <<"equals", <<"=">> >> >>

IsQuote(c) == c = "\""
NotQuote(c) == c # "\""

\* The rule matching at position i and the end (exclusive) of its match.
LexerMatch(text, i) ==
    LET lits == {k \in 1..Len(LexerLiterals) : At(text, i, LexerLiterals[k][2])}
    IN  IF lits # {}
        THEN <<LexerLiterals[Min(lits)][1], i + Len(LexerLiterals[Min(lits)][2])>>
        ELSE IF IsQuote(text[i]) /\ RunEnd(text, i + 1, NotQuote) <= Len(text)
        THEN <<"string", RunEnd(text, i + 1, NotQuote) + 1>>
        ELSE IF IsAlnum(text[i])
        THEN <<"identifier", RunEnd(text, i, IsAlnum)>>
        ELSE IF IsBlank(text[i])
        THEN <<"space", RunEnd(text, i, IsBlank)>>
        ELSE IF IsNewline(text[i]) /\ RunEnd(text, i, IsNewline) >= i + 2
        THEN <<"paragraph_break", RunEnd(text, i, IsNewline)>>
        ELSE IF IsNewline(text[i])
        THEN <<"line_break", i + 1>>
        ELSE <<"other", i + 1>>

\* The pairs of a successful TokenLexer::parse(Rule::document, text): one per
\* token, then EOI.  A pair is <<rule, start, end>> in byte offsets.
RECURSIVE LexerPairs(_, _)
LexerPairs(text, i) ==
    IF i > Len(text) THEN << <<"EOI", Len(text), Len(text)>> >>
    ELSE LET m == LexerMatch(text, i)
         IN  << <<m[1], i - 1, m[2] - 1>> >> \o LexerPairs(text, m[2])

\* Token::get_from_rule.
get_from_rule(rule) ==
    CASE rule = "left_comment" -> "LeftComment"
      [] rule = "right_comment" -> "RightComment"
      [] rule = "left_link" -> "LeftLink"
      [] rule = "left_block_end" -> "LeftBlockEnd"
      [] rule = "left_block_special" -> "LeftBlockSpecial"
      [] rule = "left_block" -> "LeftBlock"
      [] rule = "left_bracket" -> "LeftBracket"
      [] rule = "right_link" -> "RightLink"
      [] rule = "right_block" -> "RightBlock"
      [] rule = "right_bracket" -> "RightBracket"
      [] rule = "bold" -> "Bold"
      [] rule = "equals" -> "Equals"
      [] rule = "string" -> "String"
      [] rule = "identifier" -> "Identifier"
      [] rule = "space" -> "Whitespace"
      [] rule = "paragraph_break" -> "ParagraphBreak"
      [] rule = "line_break" -> "LineBreak"
      [] rule = "other" -> "Other"
      [] rule = "EOI" -> "InputEnd"

\* Token::convert_pair: the pair's rule, string and span as an ExtractedToken.
convert_pair_trimmed(text, pair) ==
    [token |-> get_from_rule(pair[1]),
     slice |-> SubSeq(text, pair[2] + 2, pair[3]),
     span |-> <<pair[2], pair[3]>>]

convert_pair(text, pair) ==
    [token |-> get_from_rule(pair[1]),
     slice |-> SubSeq(text, pair[2] + 1, pair[3]),
     span |-> <<pair[2], pair[3]>>]

\* Token::extract_all; ok tells whether TokenLexer::parse returned Ok.
extract_all(text, ok) ==
    IF ok
    THEN LET pairs == LexerPairs(text, 1)
         IN  [k \in 1..Len(pairs) |-> convert_pair(text, pairs[k])]
    ELSE << [token |-> "Other", slice |-> text, span |-> <<0, Len(text)>>] >>

LexerChars == {"[", "]", "/", "*", "a", " ", "\n"}

MaxLexerInput == 3

InitLexer ==
    /\ lexText \in SeqsUpTo(LexerChars, MaxLexerInput)
    /\ lexTokens = <<>>
    /\ lexPc = "start"

\* tokenize(text): the lexer runs and either produces its pairs or fails.
Tokenize ==
    /\ lexPc = "start"
    /\ \E ok \in BOOLEAN :
         /\ lexTokens' = extract_all(lexText, ok)
         /\ lexPc' = IF ok THEN "lexed" ELSE "lexer-error"
    /\ UNCHANGED <<lexText, ppVars, incVars, parseVars, ruleVars, nestVars>>

---------------------------------------------------------------------------
(* Include resolver: include/mod.rs and include/object.rs.  The argument   *)
(* grammar of parse_include_block is modelled after the specification and  *)
(* the cases of test_include.                                              *)

INCLUDE_WORD == <<"i", "n", "c", "l", "u", "d", "e">>

\* INCLUDE_REGEX, \[\[\s*include\s*.+\]\] with dot matching newline: the
\* leftmost match starting at or after position from, as <<start, end>>
\* (1-based, end exclusive), <<0, 0>> when there is none.  After the word
\* at least one character precedes the closing brackets, and the greedy
\* .+ runs to the last closing brackets of the text.
INCLUDE_REGEX(text, from) ==
    LET wordAt(i) == SpaceRunEnd(text, i + 2)
        closers(i) == {j \in 1..Len(text) :
                          /\ At(text, j, <<"]", "]">>)
                          /\ j >= wordAt(i) + Len(INCLUDE_WORD) + 1}
        starts == {i \in from..Len(text) :
                      /\ At(text, i, <<"[", "[">>)
                      /\ AtNoCase(text, wordAt(i), INCLUDE_WORD)
                      /\ closers(i) # {}}
    IN  IF starts = {} THEN <<0, 0>>
        ELSE <<Min(starts), Max(closers(Min(starts))) + 2>>

\* Regex::find_iter: the successive non-overlapping matches, left to right.
RECURSIVE find_iter(_, _)
find_iter(text, from) ==
    LET m == INCLUDE_REGEX(text, from)
    IN  IF m[1] = 0 THEN <<>> ELSE <<m>> \o find_iter(text, m[2])

\* The characters of page, site and argument names.
IsNameChar(c) == c \in {"p", "q", "s", "k", "v", "x"}

\* Every character an argument value may hold.
IsValueChar(c) == ~IsSpace(c) /\ c \notin {"|", "]", "="}

\* PageRef: site is <<>> for None and <<site>> for Some(site).
PageRef(site, page) == [site |-> site, page |-> page]

\* IncludeRef::page_with_args.
IncludeRef(page, variables) == [page |-> page, variables |-> variables]

IncludeParseError == [ok |-> FALSE]

\* The arguments of an include block from position i on: each is introduced
\* by a pipe, a trailing pipe is allowed, and the block closes at the end of
\* the slice.  A later value of a key replaces the earlier one.
RECURSIVE parse_include_args(_, _, _, _)
parse_include_args(slice, i, page, variables) ==
    LET a == SpaceRunEnd(slice, i)
        b == SpaceRunEnd(slice, a + 1)
        keyEnd == RunEnd(slice, b, IsNameChar)
        eq == SpaceRunEnd(slice, keyEnd)
        val == SpaceRunEnd(slice, eq + 1)
        valEnd == RunEnd(slice, val, IsValueChar)
        key == SubSeq(slice, b, keyEnd - 1)
        value == SubSeq(slice, val, valEnd - 1)
        closes(j) == At(slice, j, <<"]", "]">>) /\ j + 2 = Len(slice) + 1
    IN  IF closes(a) THEN [ok |-> TRUE, include |-> IncludeRef(page, variables)]
        ELSE IF a > Len(slice) \/ slice[a] # "|" THEN IncludeParseError
        ELSE IF closes(b) THEN [ok |-> TRUE, include |-> IncludeRef(page, variables)]
        ELSE IF keyEnd = b \/ eq > Len(slice) \/ slice[eq] # "=" THEN IncludeParseError
        ELSE IF val > Len(slice) \/ valEnd = val THEN IncludeParseError
        ELSE parse_include_args(slice, valEnd, page,
                 [k \in DOMAIN variables \cup {key} |->
                     IF k = key THEN value ELSE variables[k]])

\* parse_include_block: the IncludeRef of a candidate, or a parse error.
parse_include_block(slice) ==
    LET word == SpaceRunEnd(slice, 3)
        afterWord == word + Len(INCLUDE_WORD)
        ref == SpaceRunEnd(slice, afterWord)
        hasSite == ref <= Len(slice) /\ slice[ref] = ":"
        siteEnd == RunEnd(slice, ref + 1, IsNameChar)
        pageStart == IF hasSite THEN siteEnd + 1 ELSE ref
        pageEnd == RunEnd(slice, pageStart, IsNameChar)
        site == IF hasSite THEN <<SubSeq(slice, ref + 1, siteEnd - 1)>> ELSE <<>>
    IN  IF ~(At(slice, 1, <<"[", "[">>) /\ AtNoCase(slice, word, INCLUDE_WORD))
        THEN IncludeParseError
        ELSE IF ref = afterWord THEN IncludeParseError
        ELSE IF hasSite /\ (siteEnd = ref + 1 \/ siteEnd > Len(slice)
                            \/ slice[siteEnd] # ":")
        THEN IncludeParseError
        ELSE IF pageStart > Len(slice) \/ pageEnd = pageStart THEN IncludeParseError
        ELSE parse_include_args(slice, pageEnd,
                 PageRef(site, SubSeq(slice, pageStart, pageEnd - 1)), <<>>)

\* The candidates of a text that parse, in the order they are found.
IncludeScan(text) ==
    SelectSeq(find_iter(text, 1),
              LAMBDA m : parse_include_block(SubSeq(text, m[1], m[2] - 1)).ok)

\* The ranges pushed by the scanning loop, as byte ranges start..end.
ScanRanges(text) ==
    LET found == IncludeScan(text)
    IN  [k \in 1..Len(found) |-> <<found[k][1] - 1, found[k][2] - 1>>]

\* The includes pushed by the scanning loop.
ScanIncludes(text) ==
    LET found == IncludeScan(text)
    IN  [k \in 1..Len(found) |->
            parse_include_block(SubSeq(text, found[k][1], found[k][2] - 1)).include]

\* The pieces the resolver's input texts are made of.
IncludePieces ==
    { <<"[", "[", "i", "n", "c", "l", "u", "d", "e", " ", "p", "]", "]">>,
      <<"[", "[", "I", "n", "c", "l", "u", "d", "e", " ", ":", "s", ":", "q",
        " ", "|", "k", "=", "v", "]", "]">>,
      <<"[", "[", "i", "n", "c", "l", "u", "d", "e", " ", "|", "]", "]">>,
      <<"[", "[", "i", "n", "c", "l", "u", "d", "e">>,
      <<"]", "]">>,
      <<"x">>,
      <<" ", "q">> }

MaxIncludePieces == 3

IncludeInputs == {Concat(ps) : ps \in SeqsUpTo(IncludePieces, MaxIncludePieces)}

\* What an includer may answer: its errors, the contents of the pages it
\* has, and its messages for the pages it does not have.
IncluderErrors == {"not-reachable", "invalid-response"}
IncluderContents == {<<>>, <<"X", "Y">>}
IncluderMessages == {<<>>, <<"?">>}

\* The pages a list of includes refers to.
PagesOf(includes) == {includes[k].page : k \in 1..Len(includes)}

\* The maps include_pages may return for a request: a content for some of
\* the requested pages.
FetchedMaps(includes) ==
    UNION {[ps -> IncluderContents] : ps \in SUBSET PagesOf(includes)}

\* The record of a call of include_pages with its answer.
include_pages_unasked(includes, ok, error) ==
    [op |-> "include_pages", refs |-> <<>>, ok |-> ok, error |-> error]

include_pages(includes, ok, error) ==
    [op |-> "include_pages", refs |-> includes, ok |-> ok, error |-> error]

\* The record of a call of no_such_include with its answer.
no_such_include(page_ref, message) ==
    [op |-> "no_such_include", refs |-> <<page_ref>>, ok |-> TRUE,
     error |-> "none", text |-> message]

InitInclude ==
    /\ incInput \in IncludeInputs
    /\ incPc = "start"
    /\ incRanges = <<>>
    /\ incIncludes = <<>>
    /\ incFetched = <<>>
    /\ incOutput = <<>>
    /\ incPages = <<>>
    /\ incIdx = 0
    /\ incCalls = <<>>
    /\ incResult = "none"

\* The question mark operator on an error of include_pages.
propagate_replaced(error) == "invalid-response"

propagate(error) == error

\* include(), up to the answer of include_pages: the scan of the text for
\* include references, the call, and either the early return of its error
\* or the set-up of the substitution loop.
IncludeFetch ==
    /\ incPc = "start"
    /\ incRanges' = ScanRanges(incInput)
    /\ incIncludes' = ScanIncludes(incInput)
    /\ \/ \E error \in IncluderErrors :
            /\ incCalls' = Append(incCalls, include_pages(incIncludes', FALSE, error))
            /\ incResult' = propagate(error)
            /\ incPc' = "failed"
            /\ UNCHANGED <<incFetched, incOutput, incIdx>>
       \/ \E fetched \in FetchedMaps(incIncludes') :
            /\ incCalls' = Append(incCalls, include_pages(incIncludes', TRUE, "none"))
            /\ incFetched' = fetched
            /\ incOutput' = incInput
            /\ incIdx' = Len(incRanges')
            /\ incPc' = "substituting"
            /\ UNCHANGED incResult
    /\ UNCHANGED <<incInput, incPages, ppVars, lexVars, parseVars, ruleVars, nestVars>>

\* Vec::push.
push_dropped(vec, item) == vec

push(vec, item) == Append(vec, item)

\* The replacement of one range in the output text.
replace_range_inclusive(output, range, replace_with) ==
    ReplaceRange(output, range[1] + 1, range[2] + 2, replace_with)

replace_range(output, range, replace_with) ==
    ReplaceRange(output, range[1] + 1, range[2] + 1, replace_with)

\* One iteration of the substitution loop, which runs over the zipped
\* ranges and includes from the last to the first.
IncludeSubstitute ==
    /\ incPc = "substituting"
    /\ incIdx >= 1
    /\ LET range == incRanges[incIdx]
           page_ref == incIncludes[incIdx].page
       IN  /\ \/ /\ page_ref \in DOMAIN incFetched
                 /\ incOutput' = replace_range(incOutput, range, incFetched[page_ref])
                 /\ UNCHANGED incCalls
              \/ /\ page_ref \notin DOMAIN incFetched
                 /\ \E message \in IncluderMessages :
                      /\ incCalls' = Append(incCalls,
                             no_such_include(page_ref, message))
                      /\ incOutput' = replace_range(incOutput, range, message)
           /\ incPages' = push(incPages, page_ref)
    /\ incIdx' = incIdx - 1
    /\ UNCHANGED <<incInput, incPc, incRanges, incIncludes, incFetched, incResult,
                   ppVars, lexVars, parseVars, ruleVars, nestVars>>

\* The return of the output text and the page list.
IncludeReturn ==
    /\ incPc = "substituting"
    /\ incIdx = 0
    /\ incPc' = "done"
    /\ incResult' = "ok"
    /\ UNCHANGED <<incInput, incRanges, incIncludes, incFetched, incOutput,
                   incPages, incIdx, incCalls, ppVars, lexVars, parseVars, ruleVars,
                   nestVars>>

IncludeNext == IncludeFetch \/ IncludeSubstitute \/ IncludeReturn

---------------------------------------------------------------------------
(* Parser: parse/mod.rs, parse/consume.rs, parse/parser.rs and the rules.  *)
(* The parser's pointer is the index pos of its current token in the       *)
(* token sequence; its remaining tokens are those after pos.  A fallible   *)
(* operation returns a record whose kind is "ok", "err" for a warning      *)
(* handed to the caller, or "panic" for a failed assertion.                *)

Err(error, pos) == [kind |-> "err", error |-> error, pos |-> pos]

Panic(message) == [kind |-> "panic", message |-> message]

\* The question mark operator: what follows a success, or the failure
\* itself, handed to the caller.
Try(result, Continue(_)) ==
    IF result.kind = "ok" THEN Continue(result) ELSE result

\* Parser::make_error, make_warn: a warning of the given kind carrying the
\* current token, its span and the parser's rule.
make_warn(tokens, pos, rule, kind) ==
    [token |-> tokens[pos].token, rule |-> rule,
     span |-> tokens[pos].span, kind |-> kind]

\* Parser::step.
step(tokens, pos, rule) ==
    IF pos < Len(tokens) THEN [kind |-> "ok", pos |-> pos + 1]
    ELSE Err(make_warn(tokens, pos, rule, "EndOfInput"), pos)

\* ParseCondition::current and ParseCondition::token_pair.
CurrentToken(token) == [type |-> "CurrentToken", token |-> token]
TokenPair(current, next) == [type |-> "TokenPair", current |-> current, next |-> next]

\* The closure evaluate runs for a token pair, on a clone of the parser:
\* the clone steps when its token is the first of the pair, and every path
\* that does not fail in the step returns Ok(false).
token_pair_closure(tokens, pos, rule, current, next) ==
    IF tokens[pos].token # current
    THEN [kind |-> "ok", pos |-> pos, value |-> FALSE]
    ELSE Try(step(tokens, pos, rule),
             LAMBDA s : [kind |-> "ok", pos |-> s.pos, value |-> FALSE])

\* Parser::evaluate_fn on the result of its closure, run on a clone of the
\* parser at pos: the closure's answer, false for an error, and the
\* pointer of the parser itself.
evaluate_fn_leaking(pos, result) ==
    [value |-> result.kind = "ok" /\ result.value, pos |-> result.pos]

evaluate_fn(pos, result) ==
    [value |-> result.kind = "ok" /\ result.value, pos |-> pos]

\* Parser::evaluate.
evaluate(tokens, pos, rule, condition) ==
    IF condition.type = "CurrentToken" THEN tokens[pos].token = condition.token
    ELSE evaluate_fn(pos, token_pair_closure(tokens, pos, rule,
                              condition.current, condition.next)).value

\* Parser::evaluate_any.
evaluate_any(tokens, pos, rule, conditions) ==
    \E k \in 1..Len(conditions) : evaluate(tokens, pos, rule, conditions[k])

\* get_token: the slice of the current token if it is of the kind asked
\* for, stepping over it.
get_token(tokens, pos, rule, token, kind) ==
    IF tokens[pos].token = token
    THEN Try(step(tokens, pos, rule),
             LAMBDA s : [kind |-> "ok", pos |-> s.pos, text |-> tokens[pos].slice])
    ELSE Err(make_warn(tokens, pos, rule, kind), pos)

\* get_optional_token.
get_optional_token(tokens, pos, rule, token) ==
    IF tokens[pos].token = token THEN step(tokens, pos, rule)
    ELSE [kind |-> "ok", pos |-> pos]

get_line_break(tokens, pos, rule) ==
    get_token(tokens, pos, rule, "LineBreak", "BlockExpectedLineBreak")

get_optional_space(tokens, pos, rule) ==
    get_optional_token(tokens, pos, rule, "Whitespace")

\* Option: None, Some and unwrap_or.
None == <<>>
Some(value) == <<value>>
unwrap_or_default(option, default) == default

unwrap_or(option, default) == IF option = None THEN default ELSE option[1]

\* collect() with a closure that does nothing, so that every token not
\* closing or aborting the collection is stepped over.  On success last is
\* the index of the token the close condition held at.  The parser is
\* handed over by mutable reference: on a failure pos is where the
\* collection left it.
RECURSIVE collect(_, _, _, _, _, _)
collect(tokens, pos, rule, close_conditions, invalid_conditions, warn_kind) ==
    IF tokens[pos].token = "InputEnd"
    THEN Err(make_warn(tokens, pos, rule, "EndOfInput"), pos)
    ELSE IF evaluate_any(tokens, pos, rule, close_conditions)
    THEN Try(step(tokens, pos, rule),
             LAMBDA s : [kind |-> "ok", pos |-> s.pos, last |-> pos])
    ELSE IF evaluate_any(tokens, pos, rule, invalid_conditions)
    THEN Err(make_warn(tokens, pos, rule, unwrap_or(warn_kind, "RuleFailed")), pos)
    ELSE Try(step(tokens, pos, rule),
             LAMBDA s : collect(tokens, s.pos, rule, close_conditions,
                                invalid_conditions, warn_kind))

\* FullText::slice_partial: the text from the start of the token at from up
\* to the start of the token at to.
slice_partial(tokens, from, to) ==
    Concat([k \in 1..(to - from) |-> tokens[from + k - 1].slice])

\* collect_text_keep: the text collected before the closing token, and
\* that token.
collect_text_keep(tokens, pos, rule, close_conditions, invalid_conditions, warn_kind) ==
    Try(collect(tokens, pos, rule, close_conditions, invalid_conditions, warn_kind),
        LAMBDA c : [kind |-> "ok", pos |-> c.pos, last |-> c.last,
                    text |-> slice_partial(tokens, pos, c.last)])

\* str::trim.
RECURSIVE trim(_)
trim(text) ==
    IF text # <<>> /\ IsSpace(Head(text)) THEN trim(Tail(text))
    ELSE IF text # <<>> /\ IsSpace(text[Len(text)])
    THEN trim(SubSeq(text, 1, Len(text) - 1))
    ELSE text

\* get_block_name_internal: the name up to a space or the closing
\* brackets, and whether the head goes on after it.
get_block_name_internal(tokens, pos, rule, kind) ==
    Try(collect_text_keep(tokens, pos, rule,
            <<CurrentToken("Whitespace"), CurrentToken("RightBlock")>>,
            <<CurrentToken("ParagraphBreak"), CurrentToken("LineBreak")>>,
            Some(kind)),
        LAMBDA c : [kind |-> "ok", pos |-> c.pos, name |-> trim(c.text),
                    in_head |-> tokens[c.last].token = "Whitespace"])

\* get_block_name: an opening token if there is one, a space if there is
\* one, then the name.
get_block_name(tokens, pos, rule, special) ==
    Try(get_optional_token(tokens, pos, rule,
            IF special THEN "LeftBlockSpecial" ELSE "LeftBlock"),
        LAMBDA a :
    Try(get_optional_space(tokens, a.pos, rule),
        LAMBDA b :
    get_block_name_internal(tokens, b.pos, rule, "BlockMissingName")))

\* get_head_block: the closing brackets if the head is still open, then
\* the line break of a block that wants one, unless the input ends.
get_head_block(tokens, pos, rule, block_rule, in_head) ==
    Try(IF in_head
        THEN get_token(tokens, pos, rule, "RightBlock", "BlockMissingCloseBrackets")
        ELSE [kind |-> "ok", pos |-> pos],
        LAMBDA a :
    IF tokens[a.pos].token # "InputEnd" /\ block_rule.newline_separator
    THEN get_line_break(tokens, a.pos, rule)
    ELSE [kind |-> "ok", pos |-> a.pos])

\* interp_str: the string between its quotes, with its escapes replaced.
RECURSIVE unescape(_)
unescape(text) ==
    IF Len(text) >= 2 /\ text[1] = "\\"
          /\ text[2] \in {"\"", "\\", "r", "n", "t", "0", "'"}
    THEN << CASE text[2] = "r" -> "\r"
              [] text[2] = "n" -> "\n"
              [] text[2] = "t" -> "\t"
              [] text[2] = "0" -> "NUL"
              [] OTHER -> text[2] >> \o unescape(SubSeq(text, 3, Len(text)))
    ELSE IF text = <<>> THEN <<>>
    ELSE <<text[1]>> \o unescape(Tail(text))

parse_string(text) == unescape(SubSeq(text, 2, Len(text) - 1))

\* Arguments: a map from keys compared without regard to ASCII case, kept
\* here under their lower case, to values.
Arguments_new == <<>>

\* Arguments::insert: the value of a key already there is replaced.
insert_case_sensitive(map, key, value) ==
    [k \in DOMAIN map \cup {key} |-> IF k = key THEN value ELSE map[k]]

insert(map, key, value) ==
    [k \in DOMAIN map \cup {LowerText(key)} |->
        IF k = LowerText(key) THEN value ELSE map[k]]

\* Arguments::get: the value of the key, which is taken out of the map.
get(map, key) ==
    [value |-> IF LowerText(key) \in DOMAIN map THEN Some(map[LowerText(key)])
               ELSE None,
     map |-> [k \in DOMAIN map \ {LowerText(key)} |-> map[k]]]

\* The loop of get_head_map: key = "string" pairs up to the closing
\* brackets, a later value of a key replacing the earlier one.
RECURSIVE get_head_map_loop(_, _, _, _)
get_head_map_loop(tokens, pos, rule, map) ==
    Try(get_optional_space(tokens, pos, rule),
        LAMBDA a :
    IF tokens[a.pos].token = "RightBlock"
    THEN [kind |-> "ok", pos |-> a.pos, map |-> map]
    ELSE IF tokens[a.pos].token # "Identifier"
    THEN Err(make_warn(tokens, a.pos, rule, "BlockMalformedArguments"), a.pos)
    ELSE
    Try(step(tokens, a.pos, rule),
        LAMBDA b :
    Try(get_optional_space(tokens, b.pos, rule),
        LAMBDA c :
    Try(get_token(tokens, c.pos, rule, "Equals", "BlockMalformedArguments"),
        LAMBDA d :
    Try(get_optional_space(tokens, d.pos, rule),
        LAMBDA e :
    Try(get_token(tokens, e.pos, rule, "String", "BlockMalformedArguments"),
        LAMBDA f :
    get_head_map_loop(tokens, f.pos, rule,
        insert(map, tokens[a.pos].slice, parse_string(f.text)))))))))

\* get_head_map.
get_head_map(tokens, pos, rule, block_rule, in_head) ==
    Try(IF in_head THEN get_head_map_loop(tokens, pos, rule, Arguments_new)
        ELSE [kind |-> "ok", pos |-> pos, map |-> Arguments_new],
        LAMBDA m :
    Try(get_head_block(tokens, m.pos, rule, block_rule, in_head),
        LAMBDA h : [kind |-> "ok", pos |-> h.pos, map |-> m.map]))

\* get_head_name_map: a name, then the arguments and the end of the head.
get_head_name_map(tokens, pos, rule, block_rule, in_head) ==
    IF ~in_head THEN Err(make_warn(tokens, pos, rule, "BlockMissingName"), pos)
    ELSE
    Try(get_block_name_internal(tokens, pos, rule, "ModuleMissingName"),
        LAMBDA n :
    Try(get_head_map(tokens, n.pos, rule, block_rule, n.in_head),
        LAMBDA m : [kind |-> "ok", pos |-> m.pos, name |-> n.name, map |-> m.map]))

\* get_end_block: the name in an end block.
get_end_block(tokens, pos, rule) ==
    Try(get_token(tokens, pos, rule, "LeftBlockEnd", "BlockExpectedEnd"),
        LAMBDA a :
    Try(get_optional_space(tokens, a.pos, rule),
        LAMBDA b :
    Try(get_block_name(tokens, b.pos, rule, FALSE),
        LAMBDA n :
    IF ~n.in_head THEN [kind |-> "ok", pos |-> n.pos, name |-> n.name]
    ELSE
    Try(get_optional_space(tokens, n.pos, rule),
        LAMBDA c :
    Try(get_token(tokens, c.pos, rule, "RightBlock", "BlockExpectedEnd"),
        LAMBDA d : [kind |-> "ok", pos |-> d.pos, name |-> n.name])))))

\* Whether a rule accepts a name, ignoring ASCII case.
AcceptsName(rule, name) ==
    \E k \in 1..Len(rule.accepts_names) :
        eq_ignore_ascii_case(name, rule.accepts_names[k])

\* save_evaluate_fn on the result of its closure, run on a clone of the
\* parser at pos: on Ok(true) the parser takes over the clone's pointer and
\* the token it was on is returned; otherwise the parser stays where it is.
save_evaluate_fn_leaking(pos, result) ==
    IF result.kind = "ok" /\ result.value
    THEN [found |-> TRUE, pos |-> result.pos, last |-> pos]
    ELSE [found |-> FALSE, pos |-> result.pos, last |-> pos]

save_evaluate_fn(pos, result) ==
    IF result.kind = "ok" /\ result.value
    THEN [found |-> TRUE, pos |-> result.pos, last |-> pos]
    ELSE [found |-> FALSE, pos |-> pos, last |-> pos]

\* The closure of verify_end_block: a line break if the rule wants one and
\* this is not the first iteration, then an end block, and whether its name
\* is one of the rule's.
end_block_closure(tokens, pos, rule, first_iteration, block_rule) ==
    Try(IF block_rule.newline_separator /\ ~first_iteration
        THEN get_line_break(tokens, pos, rule)
        ELSE [kind |-> "ok", pos |-> pos],
        LAMBDA a :
    Try(get_end_block(tokens, a.pos, rule),
        LAMBDA e : [kind |-> "ok", pos |-> e.pos,
                    value |-> AcceptsName(block_rule, e.name)]))

\* verify_end_block: whether an end block of the rule is here.
verify_end_block(tokens, pos, rule, first_iteration, block_rule) ==
    save_evaluate_fn(pos,
        end_block_closure(tokens, pos, rule, first_iteration, block_rule))

\* One iteration of get_body_generic, given the answer of verify_end_block.
RECURSIVE get_body_generic(_, _, _, _, _, _)
get_body_iteration(tokens, pos, rule, block_rule, start, at_end_block) ==
    IF at_end_block.found
    THEN [kind |-> "ok", pos |-> at_end_block.pos, start |-> start,
          end |-> at_end_block.last]
    ELSE Try(step(tokens, pos, rule),
             LAMBDA s : get_body_generic(tokens, s.pos, rule, block_rule, FALSE, start))

\* get_body_generic with a closure that does nothing: the tokens the body
\* starts at and ends before.
get_body_generic(tokens, pos, rule, block_rule, first, start) ==
    get_body_iteration(tokens, pos, rule, block_rule, start,
        verify_end_block(tokens, pos, rule, first, block_rule))

\* get_body_text: the body of a block up to its end block, as text.
get_body_text(tokens, pos, rule, block_rule) ==
    Try(get_body_generic(tokens, pos, rule, block_rule, TRUE, pos),
        LAMBDA b : [kind |-> "ok", pos |-> b.pos,
                    text |-> slice_partial(tokens, b.start, b.end)])

\* Elements of the tree.
Text(slice) == [type |-> "Text", text |-> slice]
Null == [type |-> "Null"]
LineBreak == [type |-> "LineBreak"]
Module(module) == [type |-> "Module", module |-> module]

\* ParseException::Error and ParseException::Style.
Error(error) == [exc |-> "Error", error |-> error]
Style(css) == [exc |-> "Style", style |-> css]

\* A successful consumption: the element, the pointer after it and the
\* exceptions gathered on the way.
Ok(element, pos, exceptions) ==
    [kind |-> "ok", element |-> element, pos |-> pos, exceptions |-> exceptions]

\* The block rule of modules and the rules of the modules.
BLOCK_MODULE ==
    [name |-> "block-module",
     accepts_names |-> << <<"m", "o", "d", "u", "l", "e">>,
                          <<"m", "o", "d", "u", "l", "e", "6", "5", "4">> >>,
     accepts_special |-> FALSE,
     newline_separator |-> TRUE]

MODULE_CSS ==
    [name |-> "module-css", accepts_names |-> << <<"C", "S", "S">> >>]

MODULE_BACKLINKS ==
    [name |-> "module-backlinks",
     accepts_names |-> << <<"B", "a", "c", "k", "l", "i", "n", "k", "s">> >>]

\* get_module_rule_with_name: the rules of the modules with that name.
get_module_rule_with_name(name) ==
    {rule \in {MODULE_CSS, MODULE_BACKLINKS} : AcceptsName(rule, name)}

\* The name the CSS module's parse function asserts it was given.
CssAssertedName == <<"C", "a", "t", "e", "g", "o", "r", "i", "e", "s">>

\* parse_fn of the CSS module: an assertion on the name, then the body as
\* text, handed on as a style.
css_parse_fn(tokens, pos, name, arguments) ==
    IF ~eq_ignore_ascii_case(name, CssAssertedName)
    THEN Panic("Module doesn't have a valid name")
    ELSE Try(get_body_text(tokens, pos, MODULE_CSS.name, BLOCK_MODULE),
             LAMBDA body : [kind |-> "ok", pos |-> body.pos,
                            module |-> [name |-> "Null"],
                            exceptions |-> <<Style(body.text)>>])

\* parse_fn of the Backlinks module: the page argument, if there is one.
backlinks_parse_fn(tokens, pos, name, arguments) ==
    LET page == get(arguments, <<"p", "a", "g", "e">>).value
    IN  IF ~AcceptsName(MODULE_BACKLINKS, name)
        THEN Panic("Module doesn't have a valid name")
        ELSE [kind |-> "ok", pos |-> pos,
              module |-> [name |-> "Backlinks", page |-> page],
              exceptions |-> <<>>]

\* build_element: the Null module becomes the Null element.
build_element(module) == IF module.name = "Null" THEN Null ELSE Module(module)

\* The parse function of the module rule found for the name, or the
\* warning that there is no such module.
module_rule_parse_fn(rules, tokens, pos, name, arguments) ==
    IF rules = {}
    THEN Err(make_warn(tokens, pos, BLOCK_MODULE.name, "NoSuchModule"), pos)
    ELSE IF MODULE_CSS \in rules
    THEN css_parse_fn(tokens, pos, name, arguments)
    ELSE backlinks_parse_fn(tokens, pos, name, arguments)

\* parse_fn of the module block: the module's name and arguments, then the
\* parse function of the module of that name.
module_parse_fn(tokens, pos, name, special, in_head) ==
    IF special THEN Panic("Module doesn't allow special variant")
    ELSE IF ~AcceptsName(BLOCK_MODULE, name)
    THEN Panic("Module doesn't have a valid name")
    ELSE
    Try(get_head_name_map(tokens, pos, BLOCK_MODULE.name, BLOCK_MODULE, in_head),
        LAMBDA h :
    Try(module_rule_parse_fn(get_module_rule_with_name(h.name), tokens,
                             h.pos, h.name, h.map),
        LAMBDA m : Ok(build_element(m.module), m.pos, m.exceptions)))

\* The recursion limit of the parser.
MAX_RECURSION_DEPTH == 100

\* consume with the parser itself, inside depth blocks; see below.
RECURSIVE consume_parser(_, _, _, _)

\* Elements with elements in them.
Paragraph(elements) ==
    [type |-> "Container", kind |-> "Paragraph", elements |-> elements]

Div(elements, id, class, style) ==
    [type |-> "Div", elements |-> elements, id |-> id, class |-> class,
     style |-> style]

Collapsible(elements, start_open, show_text, hide_text, show_top, show_bottom, id, class, style) ==
    [type |-> "Collapsible", elements |-> elements, start_open |-> start_open,
     show_text |-> show_text, hide_text |-> hide_text, show_top |-> show_top,
     show_bottom |-> show_bottom, id |-> id, class |-> class, style |-> style]

\* The elements gathered in a body: those of the paragraphs closed so far
\* and those since (all of them, when paragraphs are not wrapped).
end_paragraph(gathered) ==
    [elements |-> gathered.elements \o
                    (IF gathered.paragraph = <<>> THEN <<>>
                     ELSE <<Paragraph(gathered.paragraph)>>),
     paragraph |-> <<>>,
     exceptions |-> gathered.exceptions]

\* push_element without the exceptions of the consumption.
push_element_dropping(gathered, consumption) ==
    [elements |-> gathered.elements,
     paragraph |-> IF consumption.element = Null THEN gathered.paragraph
                   ELSE Append(gathered.paragraph, consumption.element),
     exceptions |-> gathered.exceptions]

push_element(gathered, consumption) ==
    [elements |-> gathered.elements,
     paragraph |-> IF consumption.element = Null THEN gathered.paragraph
                   ELSE Append(gathered.paragraph, consumption.element),
     exceptions |-> gathered.exceptions \o consumption.exceptions]

body_elements(gathered, as_paragraphs) ==
    IF as_paragraphs THEN end_paragraph(gathered).elements
    ELSE gathered.paragraph

\* The loop of get_body_elements: until an end block of the rule is found,
\* an element is consumed, kept unless it is Null, and the parser is
\* stepped if the rule has not moved it.  With paragraphs, a paragraph
\* break closes the paragraph gathered so far.
RECURSIVE get_body_elements_loop(_, _, _, _, _, _, _, _)
get_body_elements_take(consumption, tokens, pos, rule, block_rule, depth, as_paragraphs, gathered) ==
    Try(consumption,
        LAMBDA c :
    Try(IF c.pos = pos THEN step(tokens, pos, rule)
        ELSE [kind |-> "ok", pos |-> c.pos],
        LAMBDA s :
    get_body_elements_loop(tokens, s.pos, rule, block_rule, depth, FALSE,
                           as_paragraphs, push_element(gathered, c))))

get_body_elements_iteration(at_end_block, tokens, pos, rule, block_rule, depth, as_paragraphs, gathered) ==
    IF at_end_block.found
    THEN [kind |-> "ok", pos |-> at_end_block.pos,
          elements |-> body_elements(gathered, as_paragraphs),
          exceptions |-> gathered.exceptions]
    ELSE IF as_paragraphs /\ tokens[pos].token = "ParagraphBreak"
    THEN Try(step(tokens, pos, rule),
             LAMBDA s :
                get_body_elements_loop(tokens, s.pos, rule, block_rule, depth,
                                       FALSE, as_paragraphs,
                                       end_paragraph(gathered)))
    ELSE get_body_elements_take(consume_parser(tokens, pos, rule, depth),
                                tokens, pos, rule, block_rule, depth,
                                as_paragraphs, gathered)

get_body_elements_loop(tokens, pos, rule, block_rule, depth, first, as_paragraphs, gathered) ==
    get_body_elements_iteration(
        verify_end_block(tokens, pos, rule, first, block_rule),
        tokens, pos, rule, block_rule, depth, as_paragraphs, gathered)

\* get_body_elements.
get_body_elements(tokens, pos, rule, block_rule, depth, as_paragraphs) ==
    get_body_elements_loop(tokens, pos, rule, block_rule, depth, TRUE,
                           as_paragraphs,
                           [elements |-> <<>>, paragraph |-> <<>>,
                            exceptions |-> <<>>])

\* The div block.
BLOCK_DIV ==
    [name |-> "block-div",
     accepts_names |-> << <<"d", "i", "v">>, <<"d", "i", "v", "_">> >>,
     accepts_special |-> FALSE,
     newline_separator |-> TRUE]

\* parse_fn of the div block: the arguments, then the body as elements,
\* in paragraphs unless the name ends with an underscore.
div_parse_fn(tokens, pos, name, special, in_block, depth) ==
    IF special THEN Panic("Div doesn't allow special variant")
    ELSE
    Try(get_head_map(tokens, pos, BLOCK_DIV.name, BLOCK_DIV, in_block),
        LAMBDA h :
    Try(get_body_elements(tokens, h.pos, BLOCK_DIV.name, BLOCK_DIV, depth,
                          name[Len(name)] # "_"),
        LAMBDA b :
    Ok(Div(b.elements,
           get(h.map, <<"i", "d">>).value,
           get(h.map, <<"c", "l", "a", "s", "s">>).value,
           get(h.map, <<"s", "t", "y", "l", "e">>).value),
       b.pos, b.exceptions)))

\* parse_boolean: the literals of true and of false, in any case.
parse_boolean(text) ==
    IF \E literal \in { <<"t", "r", "u", "e">>, <<"y", "e", "s">>, <<"o", "n">>,
                         <<"t">>, <<"y">>, <<"1">> } :
          eq_ignore_ascii_case(text, literal)
    THEN [kind |-> "ok", value |-> TRUE]
    ELSE IF \E literal \in { <<"f", "a", "l", "s", "e">>, <<"n", "o">>,
                              <<"o", "f", "f">>, <<"f">>, <<"n">>, <<"0">> } :
          eq_ignore_ascii_case(text, literal)
    THEN [kind |-> "ok", value |-> FALSE]
    ELSE [kind |-> "err"]

\* parse_hide_location: whether the link is shown at the top and at the
\* bottom.
parse_hide_location(tokens, pos, rule, text) ==
    CASE eq_ignore_ascii_case(trim(text), <<"t", "o", "p">>) ->
            [kind |-> "ok", show_top |-> TRUE, show_bottom |-> FALSE]
      [] eq_ignore_ascii_case(trim(text), <<"b", "o", "t", "t", "o", "m">>) ->
            [kind |-> "ok", show_top |-> FALSE, show_bottom |-> TRUE]
      [] eq_ignore_ascii_case(trim(text), <<"b", "o", "t", "h">>) ->
            [kind |-> "ok", show_top |-> TRUE, show_bottom |-> TRUE]
      [] eq_ignore_ascii_case(trim(text), <<"n", "e", "i", "t", "h", "e", "r">>)
         \/ eq_ignore_ascii_case(trim(text), <<"n", "o", "n", "e">>) ->
            [kind |-> "ok", show_top |-> FALSE, show_bottom |-> FALSE]
      [] OTHER ->
            Err(make_warn(tokens, pos, rule, "BlockMalformedArguments"), pos)

\* get_argument_map: key = "string" pairs up to the closing brackets,
\* which are stepped over.
get_argument_map(tokens, pos, rule) ==
    Try(get_head_map_loop(tokens, pos, rule, Arguments_new),
        LAMBDA m :
    Try(step(tokens, m.pos, rule),
        LAMBDA s : [kind |-> "ok", pos |-> s.pos, map |-> m.map]))

\* The collapsible block.
BLOCK_COLLAPSIBLE ==
    [name |-> "block-collapsible",
     accepts_names |-> << <<"c", "o", "l", "l", "a", "p", "s", "i", "b", "l", "e">> >>,
     accepts_special |-> FALSE,
     newline_separator |-> TRUE]

\* start_open of a collapsible: not folded, if the argument is there.
start_open(tokens, pos, rule, folded) ==
    IF folded = None THEN [kind |-> "ok", value |-> FALSE]
    ELSE IF parse_boolean(folded[1]).kind = "ok"
    THEN [kind |-> "ok", value |-> ~parse_boolean(folded[1]).value]
    ELSE Err(make_warn(tokens, pos, rule, "BlockMalformedArguments"), pos)

\* The location arguments of a collapsible.
hide_location(tokens, pos, rule, value) ==
    IF value = None
    THEN [kind |-> "ok", show_top |-> TRUE, show_bottom |-> FALSE]
    ELSE parse_hide_location(tokens, pos, rule, value[1])

\* parse_fn of the collapsible block.
collapsible_parse_fn(tokens, pos, name, special, in_block, depth) ==
    IF special THEN Panic("Collapsible doesn't allow special variant")
    ELSE IF ~eq_ignore_ascii_case(name, BLOCK_COLLAPSIBLE.accepts_names[1])
    THEN Panic("Collapsible doesn't have a valid name")
    ELSE
    Try(IF in_block THEN get_argument_map(tokens, pos, BLOCK_COLLAPSIBLE.name)
        ELSE [kind |-> "ok", pos |-> pos, map |-> Arguments_new],
        LAMBDA h :
    Try(start_open(tokens, h.pos, BLOCK_COLLAPSIBLE.name,
                   get(h.map, <<"f", "o", "l", "d", "e", "d">>).value),
        LAMBDA o :
    Try(hide_location(tokens, h.pos, BLOCK_COLLAPSIBLE.name,
            get(h.map, <<"h", "i", "d", "e", "l", "o", "c", "a", "t", "i", "o", "n">>).value),
        LAMBDA l :
    Try(get_body_elements(tokens, h.pos, BLOCK_COLLAPSIBLE.name,
                          BLOCK_COLLAPSIBLE, depth, TRUE),
        LAMBDA b :
    Ok(Collapsible(b.elements, o.value,
                   get(h.map, <<"s", "h", "o", "w">>).value,
                   get(h.map, <<"h", "i", "d", "e">>).value,
                   l.show_top, l.show_bottom,
                   get(h.map, <<"i", "d">>).value,
                   get(h.map, <<"c", "l", "a", "s", "s">>).value,
                   get(h.map, <<"s", "t", "y", "l", "e">>).value),
       b.pos, b.exceptions)))))

\* get_block_rule_with_name: the rules of the blocks with that name.
get_block_rule_with_name(name) ==
    {rule \in {BLOCK_MODULE, BLOCK_DIV, BLOCK_COLLAPSIBLE} : AcceptsName(rule, name)}

\* The parse function of the block rule found for the name, or the
\* warnings that there is no such block or that it has no special variant.
block_rule_parse_fn(rules, tokens, pos, rule, name, special, in_head, depth) ==
    IF rules = {}
    THEN Err(make_warn(tokens, pos, rule, "NoSuchBlock"), pos)
    ELSE IF special /\ \A block_rule \in rules : ~block_rule.accepts_special
    THEN Err(make_warn(tokens, pos, (CHOOSE block_rule \in rules : TRUE).name,
                       "InvalidSpecialBlock"), pos)
    ELSE IF BLOCK_DIV \in rules
    THEN div_parse_fn(tokens, pos, name, special, in_head, depth)
    ELSE IF BLOCK_COLLAPSIBLE \in rules
    THEN collapsible_parse_fn(tokens, pos, name, special, in_head, depth)
    ELSE module_parse_fn(tokens, pos, name, special, in_head)

\* The block rule: the name of the block, then the parse function of the
\* block rule of that name.  depth is the number of blocks open, this one
\* included.
block(tokens, pos, special, depth) ==
    Try(get_block_name(tokens, pos,
                       IF special THEN "block-special" ELSE "block", special),
        LAMBDA n :
    block_rule_parse_fn(get_block_rule_with_name(n.name), tokens, n.pos,
                        IF special THEN "block-special" ELSE "block",
                        n.name, special, n.in_head, depth))

\* The loop of the comment rule: every token up to the end of the comment
\* is dropped; the end of the input before it fails the rule.
RECURSIVE comment_loop(_, _)
comment_loop(tokens, pos) ==
    IF tokens[pos].token = "InputEnd"
    THEN Err(make_warn(tokens, pos, "comment", "EndOfInput"), pos)
    ELSE Try(step(tokens, pos, "comment"),
             LAMBDA s : IF tokens[pos].token = "RightComment"
                        THEN Ok(Null, s.pos, <<>>)
                        ELSE comment_loop(tokens, s.pos))

\* The comment rule.
comment(tokens, pos) ==
    IF tokens[pos].token # "LeftComment"
    THEN Panic("Opening token isn't the one of the rule")
    ELSE Try(step(tokens, pos, "comment"),
             LAMBDA s : comment_loop(tokens, s.pos))

\* The text rule: the slice of the token as text, and the remaining tokens.
text(tokens, pos) == Ok(Text(tokens[pos].slice), pos + 1, <<>>)

\* The text rules handed the parser itself: the slice of the current token
\* as text; the parser is not stepped.
rule_text(tokens, pos) == Ok(Text(tokens[pos].slice), pos, <<>>)

text_bad(tokens, pos) == Ok(Text(tokens[pos].slice), pos, <<>>)

\* The rule of the end of the input.
null(tokens, pos) == Ok(Null, pos + 1, <<>>)

\* The rule of line breaks.
line_break(tokens, pos) == Ok(LineBreak, pos + 1, <<>>)

\* Rule::try_consume.
try_consume(rule, tokens, pos) ==
    CASE rule = "text" -> text(tokens, pos)
      [] rule = "null" -> null(tokens, pos)
      [] rule = "line-break" -> line_break(tokens, pos)
      [] rule = "comment" -> comment(tokens, pos)
      [] rule = "block" -> block(tokens, pos, FALSE, 1)
      [] rule = "block-special" -> block(tokens, pos, TRUE, 1)

\* Rule::try_consume of a rule handed the parser itself, whose pointer the
\* rule moves: in the result pos is where the rule left the parser.  depth
\* is the number of blocks open, the one of a block rule included.
try_consume_parser(rule, tokens, pos, depth) ==
    CASE rule = "text" -> rule_text(tokens, pos)
      [] rule = "text-bad" -> text_bad(tokens, pos)
      [] rule = "null" -> Ok(Null, pos, <<>>)
      [] rule = "block" -> block(tokens, pos, FALSE, depth)
      [] rule = "block-special" -> block(tokens, pos, TRUE, depth)
      [] OTHER -> try_consume(rule, tokens, pos)

\* rules_for_token: the rules to try at a token, in order.
rules_for_token(extracted) ==
    CASE extracted.token \in {"Identifier", "Whitespace"} -> <<"text">>
      [] extracted.token \in {"LineBreak", "ParagraphBreak"} -> <<"line-break">>
      [] extracted.token = "LeftComment" -> <<"comment">>
      [] extracted.token = "LeftBlock" -> <<"block">>
      [] extracted.token = "LeftBlockSpecial" -> <<"block-special">>
      [] extracted.token = "InputEnd" -> <<"null">>
      [] OTHER -> <<>>

\* The kinds of token the rules above are the rules of.
ParserTokens ==
    {"Identifier", "Whitespace", "LineBreak", "ParagraphBreak", "LeftComment",
     "RightComment", "LeftBlock", "LeftBlockSpecial", "LeftBlockEnd",
     "RightBlock", "Other", "InputEnd"}

RULE_FALLBACK == "fallback"

\* ParseError::new from a token.
ParseError(kind, rule, extracted) ==
    [token |-> extracted.token, rule |-> rule, span |-> extracted.span,
     kind |-> kind]

\* The end of consume, when no rule matched: the slice of the token as
\* text, the remaining tokens and one error.
fallback_unmoved(tokens, pos) ==
    Ok(Text(tokens[pos].slice), pos,
       <<Error(ParseError("NoRulesMatch", RULE_FALLBACK, tokens[pos]))>>)

fallback_unwarned(tokens, pos) ==
    Ok(Text(tokens[pos].slice), pos + 1, <<>>)

fallback(tokens, pos) ==
    Ok(Text(tokens[pos].slice), pos + 1,
       <<Error(ParseError("NoRulesMatch", RULE_FALLBACK, tokens[pos]))>>)

\* The loop of consume over the rules of the token from the k-th on: the
\* consumption of the first rule that succeeds, or none.  A rule that fails
\* is discarded with whatever it stepped over, and the next one starts at
\* the same token; pos is the token consume stands at.
RECURSIVE try_rules(_, _, _, _)
try_rule_leaking(consumption, rules, k, tokens, pos) ==
    IF consumption.kind = "err"
    THEN try_rules(rules, k + 1, tokens, consumption.pos)
    ELSE consumption

try_rule(consumption, rules, k, tokens, pos) ==
    IF consumption.kind = "err" THEN try_rules(rules, k + 1, tokens, pos)
    ELSE consumption

try_rules(rules, k, tokens, pos) ==
    IF k > Len(rules) THEN [kind |-> "none", pos |-> pos]
    ELSE try_rule(try_consume(rules[k], tokens, pos), rules, k, tokens, pos)

\* The end of consume: the consumption of the rule that succeeded, or the
\* fallback when all rules are exhausted.
consume_end(consumption, tokens, pos) ==
    IF consumption.kind = "none" THEN fallback(tokens, consumption.pos)
    ELSE consumption

\* consume: the element at the token at pos.
consume(tokens, pos) ==
    consume_end(try_rules(rules_for_token(tokens[pos]), 1, tokens, pos),
                tokens, pos)

\* The depth of recursion of the parser after one more block is opened; the
\* limit must not be passed.
depth_unchanged(depth) == depth

depth_increment(depth) == depth + 1

\* consume with the parser itself, inside depth blocks: at the opening of a
\* block the depth goes up by one and must not pass the limit; the rules of
\* the token are tried in turn, the first to succeed giving the element;
\* when none does, the last warning is handed on if it is that of the
\* recursion limit, and the token becomes text otherwise.
RECURSIVE consume_parser_rules(_, _, _, _, _, _)
hands_on_nothing(warning) == FALSE

\* Whether consume hands the warning on to its caller.
hands_on(warning) == warning.kind = "RecursionDepthExceeded"

consume_parser_rule(consumption, rules, k, tokens, pos, depth, warnings) ==
    IF consumption.kind = "err"
    THEN consume_parser_rules(rules, k + 1, tokens, pos, depth,
                              Append(warnings, consumption.error))
    ELSE consumption

consume_parser_rules(rules, k, tokens, pos, depth, warnings) ==
    IF k <= Len(rules)
    THEN consume_parser_rule(try_consume_parser(rules[k], tokens, pos, depth),
                             rules, k, tokens, pos, depth, warnings)
    ELSE IF warnings # <<>> /\ hands_on(warnings[Len(warnings)])
    THEN Err(warnings[Len(warnings)], pos)
    ELSE fallback(tokens, pos)

consume_parser(tokens, pos, rule, depth) ==
    IF tokens[pos].token \notin {"LeftBlock", "LeftBlockSpecial"}
    THEN consume_parser_rules(rules_for_token(tokens[pos]), 1, tokens, pos,
                              depth, <<>>)
    ELSE IF depth_increment(depth) > MAX_RECURSION_DEPTH
    THEN Err(make_warn(tokens, pos, rule, "RecursionDepthExceeded"), pos)
    ELSE consume_parser_rules(rules_for_token(tokens[pos]), 1, tokens, pos,
                              depth_increment(depth), <<>>)

\* A container of elements.
Container(kind, elements) ==
    [type |-> "Container", kind |-> kind, elements |-> elements]

\* The loop of collect when the closure consumes an element and keeps it,
\* as collect_container has it: the end of the input, then the close
\* conditions, then the abort conditions are looked at, and otherwise an
\* element is consumed and the parser stepped if it has not moved.
RECURSIVE collect_consume(_, _, _, _, _, _, _, _, _)
collect_consume_take(consumption, tokens, pos, rule, close_conditions, invalid_conditions, warn_kind, depth, elements, exceptions) ==
    Try(consumption,
        LAMBDA c :
    Try(IF c.pos = pos THEN step(tokens, pos, rule)
        ELSE [kind |-> "ok", pos |-> c.pos],
        LAMBDA s :
    collect_consume(tokens, s.pos, rule, close_conditions, invalid_conditions,
                    warn_kind, depth, Append(elements, c.element),
                    exceptions \o c.exceptions)))

collect_consume(tokens, pos, rule, close_conditions, invalid_conditions, warn_kind, depth, elements, exceptions) ==
    IF tokens[pos].token = "InputEnd"
    THEN Err(make_warn(tokens, pos, rule, "EndOfInput"), pos)
    ELSE IF evaluate_any(tokens, pos, rule, close_conditions)
    THEN Try(step(tokens, pos, rule),
             LAMBDA s : [kind |-> "ok", pos |-> s.pos, last |-> pos,
                         elements |-> elements, exceptions |-> exceptions])
    ELSE IF evaluate_any(tokens, pos, rule, invalid_conditions)
    THEN Err(make_warn(tokens, pos, rule, unwrap_or(warn_kind, "RuleFailed")), pos)
    ELSE collect_consume_take(consume_parser(tokens, pos, rule, depth), tokens,
                              pos, rule, close_conditions, invalid_conditions,
                              warn_kind, depth, elements, exceptions)

\* collect_container: the elements consumed up to the close condition, as
\* a container of the kind.
collect_container(tokens, pos, rule, container_type, close_conditions, invalid_conditions, depth) ==
    Try(collect_consume(tokens, pos, rule, close_conditions,
                        invalid_conditions, None, depth, <<>>, <<>>),
        LAMBDA c : Ok(Container(container_type, c.elements), c.pos,
                      c.exceptions))

\* The subscript rule.
RULE_SUBSCRIPT == "subscript"

subscript(tokens, pos, depth) ==
    IF tokens[pos].token # "Subscript"
    THEN Panic("Opening token isn't subscript")
    ELSE Try(step(tokens, pos, RULE_SUBSCRIPT),
             LAMBDA s :
                collect_container(
                    tokens, s.pos, RULE_SUBSCRIPT, "Subscript",
                    <<CurrentToken("Subscript")>>,
                    <<CurrentToken("ParagraphBreak"),
                      TokenPair("Subscript", "Whitespace"),
                      TokenPair("Whitespace", "Subscript")>>,
                    depth))

\* The errors and the styles among the exceptions of a consumption.
ErrorsOf(exceptions) ==
    LET errors == SelectSeq(exceptions, LAMBDA e : e.exc = "Error")
    IN  [k \in 1..Len(errors) |-> errors[k].error]

StylesOf(exceptions) ==
    LET styles == SelectSeq(exceptions, LAMBDA e : e.exc = "Style")
    IN  [k \in 1..Len(styles) |-> styles[k].style]

\* The pieces the parser's input texts are made of.
ParsePieces ==
    { <<"[", "[", "m", "o", "d", "u", "l", "e", " ">>,
      <<"C", "S", "S", "]", "]">>,
      <<"B", "a", "c", "k", "l", "i", "n", "k", "s", "]", "]">>,
      <<"[", "[">>,
      <<"]", "]">>,
      <<"a">>,
      <<" ">>,
      <<"\n">>,
      <<"?">>,
      <<"[", "!", "-", "-">>,
      <<"-", "-", "]">>,
      <<"[", "[", "d", "i", "v", "_", "]", "]", "\n", "[", "!", "-", "-", "a",
        "-", "-", "]", "a", "\n", "[", "[", "/", "d", "i", "v", "_", "]", "]">>,
      <<"[", "[", "d", "i", "v", "]", "]", "\n", "[", "!", "-", "-", "a", "-",
        "-", "]", "\n", "\n", "a", "\n", "[", "[", "/", "d", "i", "v", "]", "]">> }

MaxParsePieces == 3

\* The token sequences of the texts, those holding only tokens of the
\* kinds the modelled rules are the rules of; and what the lexer returns
\* for the texts of one piece when it fails.
ParseInputs ==
    {tokens \in {extract_all(Concat(ps), TRUE) :
                    ps \in SeqsUpTo(ParsePieces, MaxParsePieces)} :
        \A k \in 1..Len(tokens) : tokens[k].token \in ParserTokens}
    \cup {extract_all(Concat(ps), FALSE) : ps \in SeqsUpTo(ParsePieces, 1)}

InitParse ==
    /\ pTokens \in ParseInputs
    /\ pPos = 1
    /\ pOutput = <<>>
    /\ pErrors = <<>>
    /\ pStyles = <<>>
    /\ pPc = "parsing"
    /\ pTree = <<>>
    /\ pLast = [iter |-> 0, start |-> 0, end |-> 0, errors |-> 0]

\* ParseTakeOver with the errors of the consumption put in the place of the
\* errors gathered so far.
ParseTakeOver_replacing(consumption) ==
    IF consumption.kind = "panic"
    THEN /\ pPc' = "panic"
         /\ pLast' = [iter |-> pLast.iter + 1, start |-> pPos, end |-> pPos,
                      errors |-> Len(pErrors),
                      message |-> consumption.message]
         /\ UNCHANGED <<pPos, pOutput, pErrors, pStyles>>
    ELSE IF consumption.kind = "ok"
    THEN /\ pPos' = consumption.pos
         /\ pOutput' = Append(pOutput, consumption.element)
         /\ pErrors' = ErrorsOf(consumption.exceptions)
         /\ pStyles' = pStyles \o StylesOf(consumption.exceptions)
         /\ pLast' = [iter |-> pLast.iter + 1, start |-> pPos,
                      end |-> consumption.pos, errors |-> Len(pErrors)]
         /\ UNCHANGED pPc
    ELSE /\ pLast' = [iter |-> pLast.iter + 1, start |-> pPos, end |-> pPos,
                      errors |-> Len(pErrors)]
         /\ UNCHANGED <<pPos, pOutput, pErrors, pStyles, pPc>>

\* One iteration of the loop of parse(): the tokens are split at the
\* current one, consume runs, and on its success the remaining tokens, the
\* element and the exceptions are taken over.
ParseTakeOver(consumption) ==
    IF consumption.kind = "panic"
    THEN /\ pPc' = "panic"
         /\ pLast' = [iter |-> pLast.iter + 1, start |-> pPos, end |-> pPos,
                      errors |-> Len(pErrors),
                      message |-> consumption.message]
         /\ UNCHANGED <<pPos, pOutput, pErrors, pStyles>>
    ELSE IF consumption.kind = "ok"
    THEN /\ pPos' = consumption.pos
         /\ pOutput' = Append(pOutput, consumption.element)
         /\ pErrors' = pErrors \o ErrorsOf(consumption.exceptions)
         /\ pStyles' = pStyles \o StylesOf(consumption.exceptions)
         /\ pLast' = [iter |-> pLast.iter + 1, start |-> pPos,
                      end |-> consumption.pos, errors |-> Len(pErrors)]
         /\ UNCHANGED pPc
    ELSE /\ pLast' = [iter |-> pLast.iter + 1, start |-> pPos, end |-> pPos,
                      errors |-> Len(pErrors)]
         /\ UNCHANGED <<pPos, pOutput, pErrors, pStyles, pPc>>

ParseIterate ==
    /\ pPc = "parsing"
    /\ pPos <= Len(pTokens)
    /\ ParseTakeOver(consume(pTokens, pPos))
    /\ UNCHANGED <<pTokens, pTree, ppVars, lexVars, incVars, ruleVars, nestVars>>

\* SyntaxTree::from_element_result: the last element is taken off and
\* asserted to be Null; the tree is the other elements and the styles.
from_element_result(elements, errors, styles) ==
    IF elements = <<>> \/ elements[Len(elements)] # Null
    THEN Panic("Last element wasn't null!")
    ELSE [kind |-> "ok",
          tree |-> [elements |-> SubSeq(elements, 1, Len(elements) - 1),
                    styles |-> styles],
          errors |-> errors]

\* The end of parse(): no token is left and the tree is built.
ParseFinish ==
    /\ pPc = "parsing"
    /\ pPos > Len(pTokens)
    /\ LET result == from_element_result(pOutput, pErrors, pStyles)
       IN  IF result.kind = "panic"
           THEN /\ pPc' = "panic"
                /\ pLast' = [pLast EXCEPT !.start = pPos]
                /\ UNCHANGED pTree
           ELSE /\ pPc' = "done"
                /\ pTree' = result.tree
                /\ UNCHANGED pLast
    /\ UNCHANGED <<pTokens, pPos, pOutput, pErrors, pStyles, ppVars, lexVars, incVars, ruleVars, nestVars>>

ParseNext == ParseIterate \/ ParseFinish

---------------------------------------------------------------------------
(* Single operations of the parser.  An operation is run on a parser       *)
(* standing at the token rPos of the tokens rTokens; rOp names the         *)
(* operation and its arguments, and rOut holds what it returned and, as    *)
(* pos, the pointer of that parser once the operation has returned.        *)

\* get_body_elements_no_paragraphs of the block parser: until an end block
\* of one of the names is found, an element is consumed and pushed, and the
\* parser is stepped if the rule has not moved it.
RECURSIVE BlockParser_get_body_elements_no_paragraphs_loop(_, _, _, _, _, _)
BlockParser_get_body_elements_no_paragraphs_take(consumption, tokens, pos, rule, block_rule, elements, exceptions) ==
    Try(consumption,
        LAMBDA c :
    Try(IF c.pos = pos THEN step(tokens, pos, rule)
        ELSE [kind |-> "ok", pos |-> c.pos],
        LAMBDA s :
    BlockParser_get_body_elements_no_paragraphs_loop(
        tokens, s.pos, rule, block_rule, Append(elements, c.element),
        exceptions \o c.exceptions)))

BlockParser_get_body_elements_no_paragraphs_iteration(at_end_block, tokens, pos, rule, block_rule, elements, exceptions) ==
    IF at_end_block.found
    THEN [kind |-> "ok", pos |-> at_end_block.pos, elements |-> elements,
          exceptions |-> exceptions]
    ELSE BlockParser_get_body_elements_no_paragraphs_take(
             consume_parser(tokens, pos, rule, 1), tokens, pos, rule,
             block_rule, elements, exceptions)

BlockParser_get_body_elements_no_paragraphs_loop(tokens, pos, rule, block_rule, elements, exceptions) ==
    BlockParser_get_body_elements_no_paragraphs_iteration(
        verify_end_block(tokens, pos, rule, elements = <<>>, block_rule),
        tokens, pos, rule, block_rule, elements, exceptions)

BlockParser_get_body_elements_no_paragraphs(tokens, pos, rule, block_rule) ==
    BlockParser_get_body_elements_no_paragraphs_loop(tokens, pos, rule,
                                                     block_rule, <<>>, <<>>)

\* The pieces of the texts with end blocks.
EndPieces ==
    { <<"[", "[", "/">>,
      <<"[", "[">>,
      <<"m", "o", "d", "u", "l", "e", "]", "]">>,
      <<"M", "o", "d", "u", "l", "e", " ">>,
      <<"]", "]">>,
      <<"a">>,
      <<" ">>,
      <<"\n">> }

MaxEndPieces == 3

\* The pieces of the texts with heads of blocks.
HeadPieces ==
    { <<"a", "=", "\"", "x", "\"">>,
      <<"A", " ", "=", " ", "\"", "y", "\"">>,
      <<"b">>,
      <<"=">>,
      <<" ">>,
      <<"]", "]">>,
      <<"\n">>,
      <<"[", "!", "-", "-">> }

MaxHeadPieces == 3

\* The texts with collapsible blocks: the opening, some arguments, and the
\* rest of the block.
CollapsibleArguments ==
    { <<" ", "f", "o", "l", "d", "e", "d", "=", "\"", "y", "e", "s", "\"">>,
      <<" ", "F", "o", "l", "d", "e", "d", " ", "=", " ", "\"", "T", "\"">>,
      <<" ", "f", "o", "l", "d", "e", "d", "=", "\"", "n", "o", "\"">>,
      <<" ", "f", "o", "l", "d", "e", "d", "=", "\"", "x", "\"">>,
      <<" ", "h", "i", "d", "e", "l", "o", "c", "a", "t", "i", "o", "n", "=",
        "\"", "b", "o", "t", "h", "\"">>,
      <<" ", "h", "i", "d", "e", "l", "o", "c", "a", "t", "i", "o", "n", "=",
        "\"", "x", "\"">>,
      <<" ", "a">> }

MaxCollapsibleArguments == 2

CollapsibleBodies ==
    { <<"]", "]", "\n", "[", "[", "/", "c", "o", "l", "l", "a", "p", "s", "i",
        "b", "l", "e", "]", "]">>,
      <<"]", "]", "\n", "a", "\n", "[", "[", "/", "c", "o", "l", "l", "a", "p",
        "s", "i", "b", "l", "e", "]", "]">>,
      <<"]", "]", "\n", "a">> }

CollapsibleTexts ==
    { <<"[", "[", "c", "o", "l", "l", "a", "p", "s", "i", "b", "l", "e">>
        \o Concat(arguments) \o body :
      arguments \in SeqsUpTo(CollapsibleArguments, MaxCollapsibleArguments),
      body \in CollapsibleBodies }

\* The texts with a CSS module: the opening, a body, and the end block.
CssOpenings ==
    { <<"[", "[", "m", "o", "d", "u", "l", "e", " ", "C", "S", "S", "]", "]", "\n">>,
      <<"[", "[", "m", "o", "d", "u", "l", "e", " ", "c", "s", "s", "]", "]", "\n">> }

CssBodies ==
    { <<"a">>, <<"a", " ", "b">>, <<"[", "[", "a", "]", "]">>, <<"a", "\n", "b">> }

CssTexts ==
    { opening \o body
        \o <<"\n", "[", "[", "/", "m", "o", "d", "u", "l", "e", "]", "]">> :
      opening \in CssOpenings, body \in CssBodies }

\* The texts that are the body of a module and its end block.
BodyTexts ==
    { body \o <<"\n", "[", "[", "/", "m", "o", "d", "u", "l", "e", "]", "]">> :
      body \in { <<"a">>,
                 <<"[", "!", "-", "-", "a", "-", "-", "]">>,
                 <<"[", "[", "a", "]", "]">> } }

\* The tokens of the texts with subscript markers: a marker, then up to
\* MaxScriptPieces of a marker, a space, a letter and a blank line.
ScriptPieces ==
    { [token |-> "Subscript", slice |-> <<",", ",">>],
      [token |-> "Whitespace", slice |-> <<" ">>],
      [token |-> "Identifier", slice |-> <<"a">>],
      [token |-> "ParagraphBreak", slice |-> <<"\n", "\n">>] }

MaxScriptPieces == 3

\* The tokens with the slices of the pieces, one after another, and the
\* end of the input.
RECURSIVE SliceStart(_, _)
SliceStart(pieces, k) ==
    IF k = 1 THEN 0 ELSE SliceStart(pieces, k - 1) + Len(pieces[k - 1].slice)

PiecesTokens(pieces) ==
    [k \in 1..Len(pieces) |->
        [token |-> pieces[k].token, slice |-> pieces[k].slice,
         span |-> <<SliceStart(pieces, k),
                    SliceStart(pieces, k) + Len(pieces[k].slice)>>]]
    \o << [token |-> "InputEnd", slice |-> <<>>,
           span |-> <<SliceStart(pieces, Len(pieces) + 1),
                      SliceStart(pieces, Len(pieces) + 1)>>] >>

ScriptInputs ==
    { PiecesTokens(<<[token |-> "Subscript", slice |-> <<",", ",">>]>> \o ps) :
      ps \in SeqsUpTo(ScriptPieces, MaxScriptPieces) }

RuleInputs ==
    {extract_all(Concat(ps), TRUE) : ps \in SeqsUpTo(EndPieces, MaxEndPieces)}
    \cup {extract_all(Concat(ps), TRUE) : ps \in SeqsUpTo(HeadPieces, MaxHeadPieces)}
    \cup {extract_all(input, TRUE) : input \in CollapsibleTexts}
    \cup {extract_all(input, TRUE) : input \in CssTexts}
    \cup {extract_all(input, TRUE) : input \in BodyTexts}
    \cup ScriptInputs

\* The tokens the operations are run at: the first ones of the input.
MaxRulePos == 2

RulePositions == 1..Min({Len(rTokens), MaxRulePos})

\* The rule of the parser the operations are run on.
RULE_BLOCK == "block"

\* The block rules the operations are run for.
RuleBlockRules == {BLOCK_MODULE}

\* The closures handed to evaluate_fn and save_evaluate_fn.
RuleClosures ==
    {[type |-> "token-pair", current |-> c, next |-> n] :
        c \in {"LeftBlockEnd", "Identifier"}, n \in {"Identifier", "InputEnd"}}
    \cup {[type |-> "end-block", first |-> f, block_rule |-> b] :
             f \in BOOLEAN, b \in RuleBlockRules}

run_closure(closure, tokens, pos) ==
    IF closure.type = "token-pair"
    THEN token_pair_closure(tokens, pos, RULE_BLOCK, closure.current, closure.next)
    ELSE end_block_closure(tokens, pos, RULE_BLOCK, closure.first,
                           closure.block_rule)

InitRule ==
    /\ rTokens \in RuleInputs
    /\ rPos = 0
    /\ rOp = <<>>
    /\ rOut = <<>>
    /\ rPc = "ready"

\* The operation op is run at the token pos and returns out.
RuleRun(pos, op, out) ==
    /\ rPc = "ready"
    /\ rPos' = pos
    /\ rOp' = op
    /\ rOut' = out
    /\ rPc' = "done"
    /\ UNCHANGED <<rTokens, ppVars, lexVars, incVars, parseVars, nestVars>>

\* evaluate_fn with one of the closures.
EvaluateFn ==
    \E pos \in RulePositions, closure \in RuleClosures :
        RuleRun(pos, [name |-> "evaluate_fn", closure |-> closure],
                [closure |-> run_closure(closure, rTokens, pos),
                 result |-> evaluate_fn(pos, run_closure(closure, rTokens, pos))])

\* save_evaluate_fn with one of the closures.
SaveEvaluateFn ==
    \E pos \in RulePositions, closure \in RuleClosures :
        RuleRun(pos, [name |-> "save_evaluate_fn", closure |-> closure],
                [closure |-> run_closure(closure, rTokens, pos),
                 result |-> save_evaluate_fn(pos, run_closure(closure, rTokens, pos))])

\* verify_end_block.
VerifyEndBlock ==
    \E pos \in RulePositions, first \in BOOLEAN, block_rule \in RuleBlockRules :
        RuleRun(pos, [name |-> "verify_end_block", first |-> first,
                      block_rule |-> block_rule],
                [result |-> verify_end_block(rTokens, pos, RULE_BLOCK, first,
                                             block_rule)])

\* The close conditions, abort conditions and warning kind handed to
\* collect.
RuleCollects ==
    { <<close_conditions, invalid_conditions, warn_kind>> :
        close_conditions \in
            { <<CurrentToken("Whitespace"), CurrentToken("RightBlock")>>,
              <<TokenPair("LeftBlockEnd", "Identifier"), CurrentToken("InputEnd")>> },
        invalid_conditions \in
            { <<>>,
              <<CurrentToken("LineBreak"), CurrentToken("RightBlock")>>,
              <<CurrentToken("Identifier")>> },
        warn_kind \in {None, Some("BlockMissingName")} }

\* collect.
Collect ==
    \E pos \in RulePositions, args \in RuleCollects :
        RuleRun(pos, [name |-> "collect", close_conditions |-> args[1],
                      invalid_conditions |-> args[2], warn_kind |-> args[3]],
                [result |-> collect(rTokens, pos, RULE_BLOCK, args[1], args[2],
                                    args[3])])

\* The rules tried at a token: those of the token, and the rule of bad text.
RuleRules(extracted) == rules_for_token(extracted) \o <<"text-bad">>

\* One rule tried at a token by consume: what the rule returned, with the
\* pointer it left its parser at, and what consume holds after it.
RuleAttempted(pos, rule, result) ==
    RuleRun(pos, [name |-> "rule", rule |-> rule],
            [result |-> result,
             caller |-> try_rule(result, <<rule>>, 1, rTokens, pos)])

RuleAttempt ==
    \E pos \in RulePositions :
        \E k \in 1..Len(RuleRules(rTokens[pos])) :
            RuleAttempted(pos, RuleRules(rTokens[pos])[k],
                          try_consume_parser(RuleRules(rTokens[pos])[k],
                                             rTokens, pos, 1))

\* get_head_map, after the name of a block.
GetHeadMap ==
    \E pos \in RulePositions, in_head \in BOOLEAN, block_rule \in RuleBlockRules :
        RuleRun(pos, [name |-> "get_head_map", in_head |-> in_head,
                      block_rule |-> block_rule],
                [result |-> get_head_map(rTokens, pos, block_rule.name,
                                         block_rule, in_head)])

\* get_body_elements_no_paragraphs of the block parser.
GetBodyElementsNoParagraphs ==
    \E pos \in RulePositions, block_rule \in RuleBlockRules :
        RuleRun(pos, [name |-> "get_body_elements_no_paragraphs",
                      block_rule |-> block_rule],
                [result |-> BlockParser_get_body_elements_no_paragraphs(
                                rTokens, pos, RULE_BLOCK, block_rule)])

\* The conditions handed to evaluate.
RuleConditions ==
    {TokenPair(c, n) : c \in {"LeftBlockEnd", "Identifier", "Subscript"},
                       n \in {"Identifier", "Whitespace", "InputEnd"}}
    \cup {CurrentToken("Identifier")}

\* evaluate: what it returns, and the pointer of the parser after it.
Evaluate ==
    \E pos \in RulePositions, condition \in RuleConditions :
        RuleRun(pos, [name |-> "evaluate", condition |-> condition],
                [result |-> evaluate(rTokens, pos, RULE_BLOCK, condition),
                 pos |-> IF condition.type = "TokenPair"
                         THEN evaluate_fn(pos,
                                  token_pair_closure(rTokens, pos, RULE_BLOCK,
                                      condition.current, condition.next)).pos
                         ELSE pos])

\* get_end_block.
GetEndBlock ==
    \E pos \in RulePositions :
        RuleRun(pos, [name |-> "get_end_block"],
                [result |-> get_end_block(rTokens, pos, RULE_BLOCK)])

\* The subscript rule at a subscript marker.
SubscriptRule ==
    \E pos \in RulePositions :
        /\ rTokens[pos].token = "Subscript"
        /\ RuleRun(pos, [name |-> "subscript"],
                   [result |-> subscript(rTokens, pos, 1)])

RuleNext ==
    \/ EvaluateFn
    \/ SaveEvaluateFn
    \/ VerifyEndBlock
    \/ Collect
    \/ RuleAttempt
    \/ GetHeadMap
    \/ GetBodyElementsNoParagraphs
    \/ SubscriptRule
    \/ Evaluate
    \/ GetEndBlock

---------------------------------------------------------------------------
(* The parser on nested blocks: the calls of the block rule that have not
   returned are kept as a stack, one entry for each block whose body is
   being read. *)

\* The texts: some text or none, div blocks opened one in another, some
\* text or none, and end blocks, as preprocess leaves the whole: without
\* the line break at its end.
NestOpen == <<"[", "[", "d", "i", "v", "]", "]", "\n">>
NestClose == <<"[", "[", "/", "d", "i", "v", "]", "]", "\n">>

MaxNestExcess == 1
MaxUnclosed == 2

NestDepths ==
    {0, 1, 2} \cup ((MAX_RECURSION_DEPTH - 1)..(MAX_RECURSION_DEPTH + MaxNestExcess))

NestFillers ==
    { <<>>, <<"a", "\n">>, <<"a", "\n", "\n", "a", "\n">>,
      <<"]", "]", " ", "a", "\n">> }

NestShapes ==
    { shape \in [before : NestFillers, opened : NestDepths,
                 inside : NestFillers, closed : NestDepths] :
        /\ shape.opened - shape.closed <= MaxUnclosed
        /\ shape.closed - shape.opened <= MaxUnclosed }

\* The text repeated n times.
Repeat(piece, n) ==
    [i \in 1..(Len(piece) * n) |-> piece[((i - 1) % Len(piece)) + 1]]

NestRawText(shape) ==
    shape.before \o Repeat(NestOpen, shape.opened) \o shape.inside
        \o Repeat(NestClose, shape.closed)

NestText(shape) ==
    SubSeq(NestRawText(shape), 1, Len(NestRawText(shape)) - 1)

\* The tokens of a piece of the text, without the token of the end of the
\* input.
PieceLexed(piece) ==
    SubSeq(extract_all(piece, TRUE), 1, Len(extract_all(piece, TRUE)) - 1)

\* The tokens with their spans moved by the offset.
Moved(extracted, offset) ==
    [extracted EXCEPT !.span = <<@[1] + offset, @[2] + offset>>]

\* The tokens of a piece that starts at the offset, and of a piece
\* repeated n times from the offset on.
MovedTokens(lexed, offset) ==
    [k \in 1..Len(lexed) |-> Moved(lexed[k], offset)]

RepeatedTokens(lexed, length, n, offset) ==
    [k \in 1..(Len(lexed) * n) |->
        Moved(lexed[((k - 1) % Len(lexed)) + 1],
              offset + length * ((k - 1) \div Len(lexed)))]

PieceTokens(piece, offset) == MovedTokens(PieceLexed(piece), offset)

RepeatTokens(piece, n, offset) ==
    RepeatedTokens(PieceLexed(piece), Len(piece), n, offset)

\* The tokens of the text: those of its pieces, each of which ends where a
\* token ends, without the line break at the end, and the end of the input.
NestRawTokens(shape) ==
    PieceTokens(shape.before, 0)
        \o RepeatTokens(NestOpen, shape.opened, Len(shape.before))
        \o PieceTokens(shape.inside,
                       Len(shape.before) + Len(NestOpen) * shape.opened)
        \o RepeatTokens(NestClose, shape.closed,
                        Len(shape.before) + Len(NestOpen) * shape.opened
                            + Len(shape.inside))

NestTokens(shape) ==
    SubSeq(NestRawTokens(shape), 1, Len(NestRawTokens(shape)) - 1)
        \o << [token |-> "InputEnd", slice |-> <<>>,
               span |-> <<Len(NestText(shape)), Len(NestText(shape))>>] >>

\* The rule of the parser of the whole input.
RULE_PAGE == "page"

InitNest ==
    /\ \E shape \in NestShapes :
          /\ nText = NestText(shape)
          /\ nTokens = NestTokens(shape)
    /\ nPos = 1
    /\ nStack = <<>>
    /\ nOutput = <<>>
    /\ nWarnings = <<>>
    /\ nTree = <<>>
    /\ nPc = "loop"
    /\ nError = <<>>

\* The rule of the parser that reads the tokens now, and the block whose
\* body it reads, if any.
NestTop == nStack[Len(nStack)]

NestRule == IF nStack = <<>> THEN RULE_PAGE ELSE NestTop.block_rule.name

\* Whether the parser stands at the end block of the block it is in.
NestEnd ==
    verify_end_block(nTokens, nPos, NestRule, NestTop.first, NestTop.block_rule)

NestAtEnd == nStack # <<>> /\ NestEnd.found

NestAtBreak ==
    nStack # <<>> /\ NestTop.as_paragraphs /\ nTokens[nPos].token = "ParagraphBreak"

NestAtOpening == nTokens[nPos].token \in {"LeftBlock", "LeftBlockSpecial"}

\* The body of the innermost block, or consume of the whole input, fails
\* with the warning.
NestFails(stack, warning) ==
    /\ nStack' = stack
    /\ nError' = warning
    /\ nPc' = "failing"
    /\ UNCHANGED <<nPos, nOutput, nWarnings, nTree>>

\* The caller of consume takes the element: the body of the innermost
\* block of the stack, or the whole input if there is none.  from is the
\* token consume was called at; the parser is stepped if it is still there.
NestTakes(stack, consumption, from, stepped) ==
    IF stack = <<>>
    THEN /\ nStack' = stack
         /\ nOutput' = Append(nOutput, consumption.element)
         /\ nWarnings' = nWarnings \o ErrorsOf(consumption.exceptions)
         /\ nPos' = IF consumption.pos = from THEN from + 1 ELSE consumption.pos
         /\ nPc' = "loop"
         /\ UNCHANGED <<nTree, nError>>
    ELSE IF stepped.kind = "ok"
    THEN /\ nStack' = [stack EXCEPT
                          ![Len(stack)].gathered = push_element(@, consumption),
                          ![Len(stack)].first = FALSE]
         /\ nPos' = stepped.pos
         /\ nPc' = "loop"
         /\ UNCHANGED <<nOutput, nWarnings, nTree, nError>>
    ELSE NestFails(stack, stepped.error)

\* NestDeliver without the step of a parser that has not moved.
NestDeliver_unstepped(stack, consumption, from) ==
    NestTakes(stack, consumption, from, [kind |-> "ok", pos |-> consumption.pos])

NestDeliver(stack, consumption, from) ==
    NestTakes(stack, consumption, from,
              IF stack # <<>> /\ consumption.pos = from
              THEN step(nTokens, from, stack[Len(stack)].block_rule.name)
              ELSE [kind |-> "ok", pos |-> consumption.pos])

\* What consume returned is taken by its caller: an element, or a warning
\* handed on.
NestConsumed(stack, consumption, from) ==
    IF consumption.kind = "panic"
    THEN /\ nPc' = "panic"
         /\ UNCHANGED <<nPos, nStack, nOutput, nWarnings, nTree, nError>>
    ELSE IF consumption.kind = "err"
    THEN NestFails(stack, consumption.error)
    ELSE NestDeliver(stack, consumption, from)

\* The block rule has failed in consume, called at the token from: the
\* warning is handed on or the token becomes text.
NestRuleFailed(stack, warning, from) ==
    IF hands_on(warning)
    THEN NestFails(stack, warning)
    ELSE NestDeliver(stack, fallback(nTokens, from), from)

\* The block rule up to the body of a div block, or the whole rule for the
\* other blocks.
block_head(tokens, pos, special, depth) ==
    Try(get_block_name(tokens, pos,
                       IF special THEN "block-special" ELSE "block", special),
        LAMBDA n :
    IF get_block_rule_with_name(n.name) = {BLOCK_DIV} /\ ~special
    THEN Try(get_head_map(tokens, n.pos, BLOCK_DIV.name, BLOCK_DIV, n.in_head),
             LAMBDA h : [kind |-> "body", pos |-> h.pos, name |-> n.name,
                         map |-> h.map])
    ELSE block_rule_parse_fn(get_block_rule_with_name(n.name), tokens, n.pos,
                             IF special THEN "block-special" ELSE "block",
                             n.name, special, n.in_head, depth))

NestHead(head) ==
    IF head.kind = "body"
    THEN /\ nStack' = Append(nStack,
                             [block_rule |-> BLOCK_DIV, start |-> nPos,
                              map |-> head.map, first |-> TRUE,
                              as_paragraphs |-> head.name[Len(head.name)] # "_",
                              gathered |-> [elements |-> <<>>, paragraph |-> <<>>,
                                            exceptions |-> <<>>]])
         /\ nPos' = head.pos
         /\ UNCHANGED <<nOutput, nWarnings, nTree, nPc, nError>>
    ELSE IF head.kind = "err"
    THEN NestRuleFailed(nStack, head.error, nPos)
    ELSE NestConsumed(nStack, head, nPos)

\* The end of the input: the tree is the elements.
NestFinish ==
    /\ nPc = "loop"
    /\ nStack = <<>>
    /\ nTokens[nPos].token = "InputEnd"
    /\ nTree' = nOutput
    /\ nPc' = "done"
    /\ UNCHANGED <<nText, nTokens, nPos, nStack, nOutput, nWarnings, nError,
                   ppVars, lexVars, incVars, parseVars, ruleVars>>

\* get_body_elements finds the end block: the block rule returns its
\* element to the consume that called it.
NestEndBlock ==
    /\ nPc = "loop"
    /\ NestAtEnd
    /\ NestDeliver(SubSeq(nStack, 1, Len(nStack) - 1),
                   Ok(Div(body_elements(NestTop.gathered, NestTop.as_paragraphs),
                          get(NestTop.map, <<"i", "d">>).value,
                          get(NestTop.map, <<"c", "l", "a", "s", "s">>).value,
                          get(NestTop.map, <<"s", "t", "y", "l", "e">>).value),
                      NestEnd.pos, NestTop.gathered.exceptions),
                   NestTop.start)
    /\ UNCHANGED <<nText, nTokens, ppVars, lexVars, incVars, parseVars, ruleVars>>

\* get_body_elements at a paragraph break: the paragraph ends.
NestParagraphBreak ==
    /\ nPc = "loop"
    /\ ~NestAtEnd
    /\ NestAtBreak
    /\ IF step(nTokens, nPos, NestRule).kind = "ok"
       THEN /\ nStack' = [nStack EXCEPT
                             ![Len(nStack)].gathered = end_paragraph(@),
                             ![Len(nStack)].first = FALSE]
            /\ nPos' = nPos + 1
            /\ UNCHANGED <<nOutput, nWarnings, nTree, nPc, nError>>
       ELSE NestFails(nStack, step(nTokens, nPos, NestRule).error)
    /\ UNCHANGED <<nText, nTokens, ppVars, lexVars, incVars, parseVars, ruleVars>>

\* consume at the opening of a block: the depth goes up by one and must not
\* pass the limit; the block rule reads the head of the block, and its
\* call stays on the stack while the body is read.
NestOpenBlock ==
    /\ nPc = "loop"
    /\ ~NestAtEnd
    /\ ~NestAtBreak
    /\ NestAtOpening
    /\ IF depth_increment(Len(nStack)) > MAX_RECURSION_DEPTH
       THEN NestFails(nStack, make_warn(nTokens, nPos, NestRule,
                                        "RecursionDepthExceeded"))
       ELSE NestHead(block_head(nTokens, nPos,
                                nTokens[nPos].token = "LeftBlockSpecial",
                                depth_increment(Len(nStack))))
    /\ UNCHANGED <<nText, nTokens, ppVars, lexVars, incVars, parseVars, ruleVars>>

\* consume at any other token.
NestToken ==
    /\ nPc = "loop"
    /\ ~NestAtEnd
    /\ ~NestAtBreak
    /\ ~NestAtOpening
    /\ nStack = <<>> => nTokens[nPos].token # "InputEnd"
    /\ NestConsumed(nStack, consume_parser(nTokens, nPos, NestRule, Len(nStack)),
                    nPos)
    /\ UNCHANGED <<nText, nTokens, ppVars, lexVars, incVars, parseVars, ruleVars>>

\* The body of the innermost block has failed, and the block rule with it,
\* in the consume that called it.
NestFail ==
    /\ nPc = "failing"
    /\ nStack # <<>>
    /\ NestRuleFailed(SubSeq(nStack, 1, Len(nStack) - 1), nError, NestTop.start)
    /\ UNCHANGED <<nText, nTokens, ppVars, lexVars, incVars, parseVars, ruleVars>>

\* consume of the whole input has handed on a warning: the tree is the
\* whole text, and the warning the only one.
NestFatal ==
    /\ nPc = "failing"
    /\ nStack = <<>>
    /\ nTree' = <<Text(SubSeq(nText, nTokens[1].span[1] + 1,
                              nTokens[Len(nTokens)].span[2]))>>
    /\ nWarnings' = <<nError>>
    /\ nPc' = "done"
    /\ UNCHANGED <<nText, nTokens, nPos, nStack, nOutput, nError,
                   ppVars, lexVars, incVars, parseVars, ruleVars>>

NestNext ==
    \/ NestFinish
    \/ NestEndBlock
    \/ NestParagraphBreak
    \/ NestOpenBlock
    \/ NestToken
    \/ NestFail
    \/ NestFatal

---------------------------------------------------------------------------
(* Specifications *)

InitLexIdle ==
    /\ lexText = <<>>
    /\ lexTokens = <<>>
    /\ lexPc = "idle"

InitIncIdle ==
    /\ incInput = <<>>
    /\ incPc = "idle"
    /\ incRanges = <<>>
    /\ incIncludes = <<>>
    /\ incFetched = <<>>
    /\ incOutput = <<>>
    /\ incPages = <<>>
    /\ incIdx = 0
    /\ incCalls = <<>>
    /\ incResult = "none"

InitParseIdle ==
    /\ pTokens = <<>>
    /\ pPos = 0
    /\ pOutput = <<>>
    /\ pErrors = <<>>
    /\ pStyles = <<>>
    /\ pPc = "idle"
    /\ pTree = <<>>
    /\ pLast = <<>>

InitNestIdle ==
    /\ nText = <<>>
    /\ nTokens = <<>>
    /\ nPos = 0
    /\ nStack = <<>>
    /\ nOutput = <<>>
    /\ nWarnings = <<>>
    /\ nTree = <<>>
    /\ nPc = "idle"
    /\ nError = <<>>

InitRuleIdle ==
    /\ rTokens = <<>>
    /\ rPos = 0
    /\ rOp = <<>>
    /\ rOut = <<>>
    /\ rPc = "idle"

\* The preprocessor applied to a text, and to its own output.
InitPreprocOnly ==
    InitPreproc /\ InitLexIdle /\ InitIncIdle /\ InitParseIdle /\ InitRuleIdle
        /\ InitNestIdle

SpecPreproc == InitPreprocOnly /\ [][Preprocess]_vars

\* The lexer run on a text.
InitLexerOnly ==
    InitLexer /\ InitPreprocIdle /\ InitIncIdle /\ InitParseIdle /\ InitRuleIdle
        /\ InitNestIdle

SpecLexer == InitLexerOnly /\ [][Tokenize]_vars

\* The include resolver run on a text with an arbitrary includer.
InitIncludeOnly ==
    InitInclude /\ InitPreprocIdle /\ InitLexIdle /\ InitParseIdle /\ InitRuleIdle
        /\ InitNestIdle

SpecInclude == InitIncludeOnly /\ [][IncludeNext]_vars

\* The parser run on the tokens of a text.
InitParseOnly ==
    InitParse /\ InitPreprocIdle /\ InitLexIdle /\ InitIncIdle /\ InitRuleIdle
        /\ InitNestIdle

SpecParse == InitParseOnly /\ [][ParseNext]_vars

\* Single operations of the parser run on the tokens of a text.
InitRuleOnly ==
    InitRule /\ InitPreprocIdle /\ InitLexIdle /\ InitIncIdle /\ InitParseIdle
        /\ InitNestIdle

SpecRules == InitRuleOnly /\ [][RuleNext]_vars

\* The parser run on the tokens of texts of nested blocks.
InitNestOnly ==
    InitNest /\ InitPreprocIdle /\ InitLexIdle /\ InitIncIdle /\ InitParseIdle
        /\ InitRuleIdle

SpecNest == InitNestOnly /\ [][NestNext]_vars

---------------------------------------------------------------------------
(* Properties of the lexer *)

\* C2: once the lexer has run, on either of its paths, the spans of the
\* tokens are contiguous from 0 to the length of the input, every slice is
\* the input over its span, and the slices concatenated are the input.
TokenCoverage ==
    lexPc \in {"lexed", "lexer-error"} =>
        /\ Len(lexTokens) >= 1
        /\ lexTokens[1].span[1] = 0
        /\ lexTokens[Len(lexTokens)].span[2] = Len(lexText)
        /\ \A k \in 1..Len(lexTokens) :
              /\ lexTokens[k].span[1] <= lexTokens[k].span[2]
              /\ lexTokens[k].slice =
                    SubSeq(lexText, lexTokens[k].span[1] + 1, lexTokens[k].span[2])
        /\ \A k \in 1..(Len(lexTokens) - 1) :
              lexTokens[k].span[2] = lexTokens[k + 1].span[1]
        /\ Concat([k \in 1..Len(lexTokens) |-> lexTokens[k].slice]) = lexText

\* A text of three tokens of different lengths has been lexed.
TokenCoverageWitness ==
    /\ lexPc = "lexed"
    /\ Len(lexTokens) = 3
    /\ lexTokens[1].span = <<0, 2>>
    /\ lexTokens[2].span = <<2, 3>>

\* C3: once tokenize has returned, the token sequence is not empty, its
\* last token is InputEnd with an empty slice and the span len..len, and no
\* earlier token is InputEnd.
TokensEndWithInputEnd ==
    lexPc \in {"lexed", "lexer-error"} =>
        /\ Len(lexTokens) >= 1
        /\ lexTokens[Len(lexTokens)].token = "InputEnd"
        /\ lexTokens[Len(lexTokens)].slice = <<>>
        /\ lexTokens[Len(lexTokens)].span = <<Len(lexText), Len(lexText)>>
        /\ \A k \in 1..(Len(lexTokens) - 1) : lexTokens[k].token # "InputEnd"

---------------------------------------------------------------------------
(* Properties of the preprocessor *)

\* C6: preprocess applied to its own output returns that output.
PreprocessIdempotent ==
    Len(ppTrail) >= 3 => ppTrail[3] = ppTrail[2]

---------------------------------------------------------------------------
(* Properties of the include resolver *)

IncludeReplacement(k) ==
    LET page_ref == incIncludes[k].page
        asked == {c \in 1..Len(incCalls) :
                     /\ incCalls[c].op = "no_such_include"
                     /\ incCalls[c].refs = <<page_ref>>}
    IN  IF page_ref \in DOMAIN incFetched THEN incFetched[page_ref]
        ELSE incCalls[Min(asked)].text

\* The input from byte offset from on, with the parsed ranges from the
\* k-th on replaced.
RECURSIVE IncludeSpliced(_, _)
IncludeSpliced(k, from) ==
    IF k > Len(incRanges) THEN SubSeq(incInput, from + 1, Len(incInput))
    ELSE SubSeq(incInput, from + 1, incRanges[k][1])
            \o IncludeReplacement(k)
            \o IncludeSpliced(k + 1, incRanges[k][2])

\* C8: when the includer succeeds, the output is the input with every
\* parsed range replaced by the fetched content of its page, or by the
\* answer of no_such_include when nothing was fetched for it, and all
\* else unchanged; without a valid directive the input is returned as it is
\* with no pages.
IncludeSubstitution ==
    incPc = "done" =>
        /\ incRanges = ScanRanges(incInput)
        /\ incOutput = IncludeSpliced(1, 0)
        /\ incRanges = <<>> => incOutput = incInput /\ incPages = <<>>

\* A directive between other text has been replaced by a fetched content.
IncludeSubstitutionWitness ==
    /\ incPc = "done"
    /\ Len(incRanges) = 1
    /\ incRanges[1][1] > 0
    /\ incRanges[1][2] < Len(incInput)
    /\ incIncludes[1].page \in DOMAIN incFetched
    /\ incFetched[incIncludes[1].page] = <<"X", "Y">>

\* C9: include() returns an error only when include_pages returned one,
\* and then that error and no text; a candidate that does not parse makes
\* no error and stays in the text.
IncludeErrors ==
    /\ incResult \notin {"none", "ok"} =>
          /\ incPc = "failed"
          /\ Len(incCalls) = 1
          /\ incCalls[1].op = "include_pages"
          /\ ~incCalls[1].ok
          /\ incResult = incCalls[1].error
          /\ incOutput = <<>>
          /\ incPages = <<>>
    /\ incPc = "failed" => incResult \in IncluderErrors
    /\ incPc \in {"substituting", "done"} => incCalls[1].ok
    /\ incPc = "done" /\ find_iter(incInput, 1) # <<>> /\ incRanges = <<>> =>
          incOutput = incInput

\* include_pages has failed on a text with a valid directive.
IncludeErrorsWitness ==
    /\ incPc = "failed"
    /\ Len(incIncludes) = 1
    /\ incResult = "not-reachable"

\* C10: include() calls include_pages exactly once, with all the parsed
\* references, before it substitutes anything and before it calls
\* no_such_include; after a failed include_pages it calls nothing more.
IncludePagesOnce ==
    /\ incPc = "start" => incCalls = <<>> /\ incOutput = <<>> /\ incPages = <<>>
    /\ incPc \in {"substituting", "done", "failed"} =>
          /\ Len(incCalls) >= 1
          /\ incCalls[1].op = "include_pages"
          /\ incCalls[1].refs = incIncludes
          /\ incIncludes = ScanIncludes(incInput)
          /\ \A c \in 2..Len(incCalls) : incCalls[c].op = "no_such_include"
    /\ incPc = "failed" => Len(incCalls) = 1

\* include_pages was called for a directive, then no_such_include.
IncludePagesOnceWitness ==
    /\ incPc = "done"
    /\ Len(incCalls) = 2
    /\ Len(incCalls[1].refs) = 1
    /\ incCalls[2].op = "no_such_include"

---------------------------------------------------------------------------
(* Properties of the parser *)

\* C1: the parse of any token sequence completes with a tree: no assertion
\* fails in consume, in a rule, block or module parse function, or when the
\* tree is built.
ParseNeverPanics == pPc # "panic"

\* C4: an iteration of the loop of parse() that starts at a token other
\* than InputEnd and runs to its end leaves the position strictly further
\* along the tokens, and the loop makes no more iterations than there are
\* tokens.
ParseProgress ==
    [][/\ (/\ pPc = "parsing"
           /\ pPos <= Len(pTokens)
           /\ pTokens[pPos].token # "InputEnd"
           /\ pPc' = "parsing") => pPos' > pPos
       /\ pPc' # "idle" => pLast'.iter <= Len(pTokens')]_vars

\* An iteration has gone over several tokens at once, one over a single
\* token before it.
ParseProgressWitness ==
    /\ pPc = "parsing"
    /\ pLast.iter = 2
    /\ pLast.end > pLast.start + 1

\* Whether every rule listed for the token at pos fails there.
AllRulesFail(pos) ==
    LET rules == rules_for_token(pTokens[pos])
    IN  \A k \in 1..Len(rules) : try_consume(rules[k], pTokens, pos).kind = "err"

\* C5: when every rule of the current token fails, the iteration appends
\* the text of the token's slice, advances by one token and records one
\* error, NoRulesMatch of the rule "fallback" with the token's kind and
\* span, and none of the errors of the rules that failed.
FallbackText ==
    pLast.iter >= 1 /\ pPc \in {"parsing", "done"} /\ AllRulesFail(pLast.start) =>
        /\ pLast.end = pLast.start + 1
        /\ pOutput[Len(pOutput)] = Text(pTokens[pLast.start].slice)
        /\ SubSeq(pErrors, pLast.errors + 1, Len(pErrors)) =
              << [token |-> pTokens[pLast.start].token,
                  rule |-> "fallback",
                  span |-> pTokens[pLast.start].span,
                  kind |-> "NoRulesMatch"] >>

\* The block rule has failed at an opening of a block that is not the
\* first token, and the opening has become text.
FallbackTextWitness ==
    /\ pPc = "parsing"
    /\ pLast.iter = 2
    /\ pTokens[pLast.start].token = "LeftBlock"
    /\ AllRulesFail(pLast.start)
    /\ Len(pErrors) >= 1

\* C13: in every step of the top-level parse the list of warnings only
\* grows: the warnings recorded before are still there, unchanged and in
\* their order; the step that records a warning leaves the parse running,
\* past the token it was on, and the end of the parse builds the tree with
\* the warnings it gathered.
WarningsAppendOnly ==
    [][/\ Len(pErrors') >= Len(pErrors)
       /\ SubSeq(pErrors', 1, Len(pErrors)) = pErrors
       /\ (pErrors' # pErrors => pPc' = "parsing" /\ pPos' > pPos)
       /\ (pPc = "parsing" /\ pPos > Len(pTokens) /\ pOutput # <<>>
              /\ pOutput[Len(pOutput)] = Null
            => pPc' = "done" /\ pErrors' = pErrors)]_vars

\* A parse that recorded two warnings has built its tree.
WarningsAppendOnlyWitness ==
    /\ pPc = "done"
    /\ Len(pErrors) = 2
    /\ pErrors[1].span[2] <= pErrors[2].span[1]
    /\ Len(pTree.elements) >= 2

\* C16: after evaluate_fn the pointer of the parser is where it was,
\* whatever its closure did and returned; after save_evaluate_fn it is where
\* the closure left its clone if the closure returned Ok(true), and where
\* it was if the closure returned Ok(false) or an error.
SpeculationFrame ==
    rPc = "done" =>
        /\ rOp.name = "evaluate_fn" =>
              /\ rOut.result.pos = rPos
              /\ rOut.result.value = (rOut.closure.kind = "ok" /\ rOut.closure.value)
        /\ rOp.name = "save_evaluate_fn" =>
              IF rOut.closure.kind = "ok" /\ rOut.closure.value
              THEN rOut.result.found /\ rOut.result.pos = rOut.closure.pos
              ELSE ~rOut.result.found /\ rOut.result.pos = rPos

\* save_evaluate_fn has run a closure that stepped over two tokens or more
\* and then failed.
SpeculationFrameWitness ==
    /\ rPc = "done"
    /\ rOp.name = "save_evaluate_fn"
    /\ rOut.closure.kind = "err"
    /\ rOut.closure.pos >= rPos + 2
    /\ rOut.result.pos = rPos

\* The index after an optional Whitespace token at pos.
SkipSpace(tokens, pos) == IF tokens[pos].token = "Whitespace" THEN pos + 1 ELSE pos

\* Whether the tokens from pos on are an end block of the block rule: the
\* opening of an end block, a name of the rule with optional spaces around
\* it, and the closing brackets.  EndBlockEnd is the index after them.
EndBlockName(tokens, pos) == SkipSpace(tokens, pos + 1)
EndBlockEnd(tokens, pos) == SkipSpace(tokens, EndBlockName(tokens, pos) + 1) + 1

IsEndBlock(tokens, pos, block_rule) ==
    /\ tokens[pos].token = "LeftBlockEnd"
    /\ tokens[EndBlockName(tokens, pos)].token = "Identifier"
    /\ AcceptsName(block_rule, tokens[EndBlockName(tokens, pos)].slice)
    /\ tokens[EndBlockEnd(tokens, pos) - 1].token = "RightBlock"

\* Where the end block has to start: after the line break the rule wants
\* between the body and the end block, or 0 if that line break is not there.
EndBlockStart(tokens, pos, first, block_rule) ==
    IF block_rule.newline_separator /\ ~first
    THEN IF tokens[pos].token = "LineBreak" THEN pos + 1 ELSE 0
    ELSE pos

\* C18: verify_end_block returns a token and leaves the parser after the
\* closing brackets exactly when an end block of the rule stands at the
\* pointer (after a line break, if the rule separates by line breaks and
\* this is not the first iteration); otherwise it returns none and the
\* pointer is where it was.
EndBlockRecognised ==
    rPc = "done" /\ rOp.name = "verify_end_block" =>
        LET start == EndBlockStart(rTokens, rPos, rOp.first, rOp.block_rule)
        IN  IF start # 0 /\ IsEndBlock(rTokens, start, rOp.block_rule)
            THEN /\ rOut.result.found
                 /\ rOut.result.pos = EndBlockEnd(rTokens, start)
            ELSE /\ ~rOut.result.found
                 /\ rOut.result.pos = rPos

\* The first token from pos on that ends a name: a space, the closing
\* brackets, or the end of the input.
EndBlockNameEnd(tokens, pos) ==
    Min({k \in pos..Len(tokens) :
            tokens[k].token \in {"Whitespace", "RightBlock", "InputEnd"}})

\* C30: get_end_block succeeds only on the tokens of the shape
\* LeftBlockEnd, optional Whitespace, name, optional Whitespace,
\* RightBlock: the name it returns starts right after the opening and the
\* optional space, where no LeftBlock token stands, and the parser is left
\* after the closing brackets.
EndBlockShape ==
    (rPc = "done" /\ rOp.name = "get_end_block" /\ rOut.result.kind = "ok") =>
        LET n == EndBlockName(rTokens, rPos)
            e == EndBlockNameEnd(rTokens, n)
        IN  /\ rTokens[rPos].token = "LeftBlockEnd"
            /\ rTokens[n].token # "LeftBlock"
            /\ rOut.result.name = trim(slice_partial(rTokens, n, e))
            /\ rTokens[SkipSpace(rTokens, e)].token = "RightBlock"
            /\ rOut.result.pos = SkipSpace(rTokens, e) + 1

\* The first token from pos on at which a collection stops: the end of the
\* input, or a token at which one of the conditions holds.
CollectStop(tokens, pos, close_conditions, invalid_conditions) ==
    Min({k \in pos..Len(tokens) :
            \/ tokens[k].token = "InputEnd"
            \/ evaluate_any(tokens, k, RULE_BLOCK, close_conditions)
            \/ evaluate_any(tokens, k, RULE_BLOCK, invalid_conditions)})

\* C17: collect succeeds exactly when, at the first token at which it
\* stops, the input has not ended and a close condition holds; it then
\* returns that token and leaves the parser on the token after it.  If the
\* input ends first it fails with EndOfInput; if an abort condition holds
\* first it fails with the warning kind supplied, RuleFailed if none was.
CollectOutcome ==
    rPc = "done" /\ rOp.name = "collect" =>
        LET k == CollectStop(rTokens, rPos, rOp.close_conditions,
                             rOp.invalid_conditions)
        IN  IF rTokens[k].token = "InputEnd"
            THEN /\ rOut.result.kind = "err"
                 /\ rOut.result.error.kind = "EndOfInput"
                 /\ rOut.result.error.span = rTokens[k].span
            ELSE IF evaluate_any(rTokens, k, RULE_BLOCK, rOp.close_conditions)
            THEN /\ rOut.result.kind = "ok"
                 /\ rOut.result.last = k
                 /\ rOut.result.pos = k + 1
            ELSE /\ rOut.result.kind = "err"
                 /\ rOut.result.error.kind =
                       (IF rOp.warn_kind = <<>> THEN "RuleFailed"
                        ELSE rOp.warn_kind[1])
                 /\ rOut.result.error.span = rTokens[k].span

\* A collection stepped over two tokens and was then aborted with the
\* warning kind it was given.
CollectOutcomeWitness ==
    /\ rPc = "done"
    /\ rOp.name = "collect"
    /\ rOut.result.kind = "err"
    /\ rOut.result.error.kind = "BlockMissingName"
    /\ rOut.result.pos = rPos + 2

RuleSuccessAdvances ==
    rPc = "done" /\ rOp.name = "rule" /\ rOut.result.kind = "ok" =>
        rOut.result.pos > rPos

\* The tokens of the head from pos up to the closing brackets (or the end
\* of the tokens if there are none), without the Whitespace tokens.
HeadEnd(tokens, pos) ==
    Min({k \in pos..(Len(tokens) + 1) :
            k = Len(tokens) + 1 \/ tokens[k].token = "RightBlock"})

HeadTokens(tokens, pos) ==
    SelectSeq(SubSeq(tokens, pos, HeadEnd(tokens, pos) - 1),
              LAMBDA e : e.token # "Whitespace")

\* Whether the head from pos is a sequence of key = "string" pairs followed
\* by the closing brackets.
HeadWellFormed(tokens, pos) ==
    LET head == HeadTokens(tokens, pos)
    IN  /\ HeadEnd(tokens, pos) <= Len(tokens)
        /\ Len(head) % 3 = 0
        /\ \A n \in 1..Len(head) :
              head[n].token = CASE n % 3 = 1 -> "Identifier"
                                [] n % 3 = 2 -> "Equals"
                                [] OTHER -> "String"

\* The value of the last pair of the head whose key is the key, ignoring
\* ASCII case: the string without its quotes.
HeadLastValue(tokens, pos, key) ==
    LET head == HeadTokens(tokens, pos)
        n == Max({j \in 1..Len(head) :
                    j % 3 = 1 /\ eq_ignore_ascii_case(head[j].slice, key)})
    IN  SubSeq(head[n + 2].slice, 2, Len(head[n + 2].slice) - 1)

\* C19: get_head_map, run in a head, fails with BlockMalformedArguments
\* when what stands before the closing brackets is not a sequence of
\* key = "string" pairs; when it is one and a map is returned, the map
\* holds for every key, looked up in any case, the value of the last pair
\* with that key, and one entry for all the keys that differ only in case.
HeadMap ==
    rPc = "done" /\ rOp.name = "get_head_map" /\ rOp.in_head =>
        LET head == HeadTokens(rTokens, rPos)
            keys == {head[n].slice : n \in {j \in 1..Len(head) : j % 3 = 1}}
        IN  IF ~HeadWellFormed(rTokens, rPos)
            THEN /\ rOut.result.kind = "err"
                 /\ rOut.result.error.kind = "BlockMalformedArguments"
            ELSE IF rOut.result.kind = "err"
            THEN rOut.result.error.kind = "BlockExpectedLineBreak"
            ELSE /\ \A key \in keys :
                       get(rOut.result.map, key).value =
                           <<HeadLastValue(rTokens, rPos, key)>>
                 /\ Cardinality(DOMAIN rOut.result.map) =
                       Cardinality({LowerText(key) : key \in keys})

\* A head with the same key twice, in different cases, gave a map with the
\* one entry of the second value.
HeadMapWitness ==
    /\ rPc = "done"
    /\ rOp.name = "get_head_map"
    /\ rOp.in_head
    /\ rOut.result.kind = "ok"
    /\ Len(HeadTokens(rTokens, rPos)) = 6
    /\ HeadTokens(rTokens, rPos)[1].slice = <<"a">>
    /\ HeadTokens(rTokens, rPos)[4].slice = <<"A">>
    /\ Cardinality(DOMAIN rOut.result.map) = 1
    /\ get(rOut.result.map, <<"a">>).value = << <<"y">> >>

\* The boolean literals of true and of false.
TrueLiterals ==
    { <<"t", "r", "u", "e">>, <<"y", "e", "s">>, <<"o", "n">>, <<"t">>,
      <<"y">>, <<"1">> }

FalseLiterals ==
    { <<"f", "a", "l", "s", "e">>, <<"n", "o">>, <<"o", "f", "f">>, <<"f">>,
      <<"n">>, <<"0">> }

IsLiteral(value, literals) ==
    \E literal \in literals : eq_ignore_ascii_case(value, literal)

\* Whether the tokens are the opening of a collapsible block with a head
\* of key = "string" pairs, or with no head.
IsCollapsibleOpening(tokens) ==
    /\ Len(tokens) >= 3
    /\ tokens[1].token = "LeftBlock"
    /\ tokens[2].token = "Identifier"
    /\ eq_ignore_ascii_case(tokens[2].slice,
                            <<"c", "o", "l", "l", "a", "p", "s", "i", "b", "l", "e">>)
    /\ HeadWellFormed(tokens, 3)

HasKey(tokens, pos, key) ==
    \E j \in 1..Len(HeadTokens(tokens, pos)) :
        j % 3 = 1 /\ eq_ignore_ascii_case(HeadTokens(tokens, pos)[j].slice, key)

\* C20: the block rule run at the opening of a collapsible block with a
\* well-formed head fails with BlockMalformedArguments when the value of
\* folded is not a boolean literal; when it returns the element, start_open
\* is false if folded is a literal of true, and true otherwise, also when
\* there is no folded argument.
CollapsibleStartOpen ==
    (/\ rPc = "done" /\ rOp.name = "rule" /\ rOp.rule = "block" /\ rPos = 1
     /\ IsCollapsibleOpening(rTokens))
    => LET folded == <<"f", "o", "l", "d", "e", "d">>
           present == HasKey(rTokens, 3, folded)
           value == HeadLastValue(rTokens, 3, folded)
       IN  IF present /\ ~IsLiteral(value, TrueLiterals \cup FalseLiterals)
           THEN /\ rOut.result.kind = "err"
                /\ rOut.result.error.kind = "BlockMalformedArguments"
           ELSE rOut.result.kind = "ok"
                => /\ rOut.result.element.type = "Collapsible"
                   /\ rOut.result.element.start_open
                          = ~(present /\ IsLiteral(value, TrueLiterals))

---------------------------------------------------------------------------
(* Properties of the parser on nested blocks *)

\* The tokens that open a block, in the order of the text.
NestOpenings == {k \in 1..Len(nTokens) : nTokens[k].token = "LeftBlock"}

\* The opening that has as many openings before it as the limit allows
\* blocks one in another: the first one over the limit.
NestOverOpening ==
    CHOOSE k \in NestOpenings :
        Cardinality({j \in NestOpenings : j < k}) = MAX_RECURSION_DEPTH

NestExceeded == {n \in 1..Len(nWarnings) : nWarnings[n].kind = "RecursionDepthExceeded"}

\* C11: when the parser is done with a text that opens more blocks one in
\* another than the limit allows, there is exactly one warning of kind
\* RecursionDepthExceeded, it carries the token and the span of the first
\* opening over the limit, and the tree is text only, the text of the
\* source.
RecursionSafety ==
    (nPc = "done" /\ Cardinality(NestOpenings) > MAX_RECURSION_DEPTH)
    => /\ Cardinality(NestExceeded) = 1
       /\ \A n \in NestExceeded :
             /\ nWarnings[n].token = "LeftBlock"
             /\ nWarnings[n].span = nTokens[NestOverOpening].span
       /\ \A n \in 1..Len(nTree) : nTree[n].type = "Text"
       /\ Concat([n \in 1..Len(nTree) |-> nTree[n].text]) = nText

RecursionSafetyWitness ==
    /\ nPc = "done"
    /\ Cardinality(NestOpenings) > MAX_RECURSION_DEPTH
    /\ nText[1] = "a"
    /\ nTokens[NestOverOpening + 4].token = "Identifier"
    /\ nWarnings # <<>>

\* The text of 101 div blocks opened one in another and their 101 end
\* blocks, preprocessed.
RecursionDepthInput ==
    SubSeq(Repeat(NestOpen, 101) \o Repeat(NestClose, 101), 1, 101 * 8 + 101 * 9 - 1)

\* C12: when the parser is done with the text of 101 div blocks one in
\* another, the tree is one element, the text of the whole preprocessed
\* input, and the first warning has the token LeftBlock, the rule
\* block-div, the span 800..802 and the kind RecursionDepthExceeded.
RecursionDepthTest ==
    (nPc = "done" /\ nText = RecursionDepthInput)
    => /\ Len(nTree) = 1
       /\ nTree[1] = Text(RecursionDepthInput)
       /\ Len(nWarnings) >= 1
       /\ nWarnings[1].token = "LeftBlock"
       /\ nWarnings[1].rule = "block-div"
       /\ nWarnings[1].span = <<800, 802>>
       /\ nWarnings[1].kind = "RecursionDepthExceeded"

RecursionDepthTestWitness ==
    /\ nPc = "done"
    /\ nText = RecursionDepthInput
    /\ Len(nText) = 1716
    /\ nTree # <<>>

\* The closing brackets that close no head and no end block: those that do
\* not follow the name of a block.
NestStray ==
    {k \in 1..Len(nTokens) :
        /\ nTokens[k].token = "RightBlock"
        /\ (k = 1 \/ nTokens[k - 1].token # "Identifier")}

\* The k-th of a set of numbers, in their order.
RECURSIVE Ordered(_)
Ordered(numbers) ==
    IF numbers = {} THEN <<>>
    ELSE <<Min(numbers)>> \o Ordered(numbers \ {Min(numbers)})

\* Every block of the text is closed and none is over the limit, so that
\* every block rule succeeds.
NestAllClosed ==
    /\ Cardinality(NestOpenings)
          = Cardinality({k \in 1..Len(nTokens) : nTokens[k].token = "LeftBlockEnd"})
    /\ Cardinality(NestOpenings) <= MAX_RECURSION_DEPTH

\* The warnings of the fallback at the stray closing brackets, one for
\* each, in the order of the text.
NestStrayWarnings ==
    [n \in 1..Cardinality(NestStray) |->
        ParseError("NoRulesMatch", RULE_FALLBACK, nTokens[Ordered(NestStray)[n]])]

\* C27: when the parser is done with a text that opens no more blocks than
\* the limit allows, the warnings for the stray closing brackets of the
\* text, in or out of the bodies of the blocks, are one for each, in the
\* order of the text, whatever block rules failed and were tried again on
\* the way; and when every block of the text is closed, so that every
\* block rule succeeds, there is no other warning.
BodyWarningsOnce ==
    (nPc = "done" /\ Cardinality(NestOpenings) <= MAX_RECURSION_DEPTH)
    => /\ SelectSeq(nWarnings,
                    LAMBDA w : \E k \in NestStray : w.span = nTokens[k].span)
            = NestStrayWarnings
       /\ NestAllClosed => nWarnings = NestStrayWarnings

\* The parser is done with a text that has a stray closing bracket before
\* its blocks and one in the body of the innermost of them, and the tree
\* is more than text.
BodyWarningsOnceWitness ==
    /\ nPc = "done"
    /\ NestAllClosed
    /\ Cardinality(NestOpenings) >= 2
    /\ Cardinality(NestStray) = 2
    /\ Len(nWarnings) = 2
    /\ \E n \in 1..Len(nTree) : nTree[n].type = "Div"

\* Where the parser is: the openings of the blocks whose bodies are being
\* read, from the outermost in, and the pointer.
NestPlace(stack, pos) ==
    [k \in 1..(Len(stack) + 1) |->
        IF k <= Len(stack) THEN stack[k].start ELSE pos]

\* The first place comes before the second: it is the start of it, or has
\* the smaller number where they first differ.
Before(a, b) ==
    \/ Len(a) < Len(b) /\ SubSeq(b, 1, Len(a)) = a
    \/ \E i \in 1..Min({Len(a), Len(b)}) :
          /\ a[i] < b[i]
          /\ \A j \in 1..(i - 1) : a[j] = b[j]

\* C28: the collection of a body ends.  Every step of the parser moves it
\* forward: to a later place, to the failure of the body it is in, or,
\* when a warning is handed on, out of a block.  A step of the loop of a
\* body that stays in that loop moves the pointer by at least one token;
\* at the end of the input the loop fails with the warning EndOfInput at
\* that token; and the pointer never passes the last token.
BodyCollectionEnds ==
    [][/\ \/ Before(NestPlace(nStack, nPos), NestPlace(nStack', nPos'))
          \/ nPc = "loop" /\ nPc' = "failing" /\ nStack' = nStack /\ nPos' = nPos
          \/ /\ nPc = "failing" /\ nPc' = "failing" /\ hands_on(nError')
             /\ Len(nStack') < Len(nStack)
          \/ nPc' \in {"done", "panic"} /\ nPc \notin {"done", "panic"}
       /\ (nPc = "loop" /\ nStack # <<>> /\ nPc' = "loop"
              /\ Len(nStack') = Len(nStack))
          => nPos' > nPos
       /\ (nPc = "loop" /\ nStack # <<>> /\ nTokens[nPos].token = "InputEnd")
          => (/\ nPc' = "failing"
              /\ nStack' = nStack
              /\ nError'.kind = "EndOfInput"
              /\ nError'.span = nTokens[Len(nTokens)].span)
       /\ nPos' <= Len(nTokens)]_vars

\* The body of a block inside another has failed at the end of the input,
\* after some text was taken into it.
BodyCollectionEndsWitness ==
    /\ nPc = "failing"
    /\ Len(nStack) >= 2
    /\ nTokens[nPos].token = "InputEnd"
    /\ nError.kind = "EndOfInput"
    /\ NestTop.gathered.paragraph # <<>>

---------------------------------------------------------------------------
(* Properties of the modules *)

\* Whether the tokens are those of a CSS module: the opening with the name
\* of the module, a line break, a body, a line break and the end block of
\* the module block, the only end block there is.
IsCssModule(tokens) ==
    /\ Len(tokens) >= 12
    /\ tokens[1].token = "LeftBlock"
    /\ tokens[2].token = "Identifier"
    /\ eq_ignore_ascii_case(tokens[2].slice, <<"m", "o", "d", "u", "l", "e">>)
    /\ tokens[3].token = "Whitespace"
    /\ tokens[4].token = "Identifier"
    /\ eq_ignore_ascii_case(tokens[4].slice, <<"c", "s", "s">>)
    /\ tokens[5].token = "RightBlock"
    /\ tokens[6].token = "LineBreak"
    /\ tokens[Len(tokens) - 4].token = "LineBreak"
    /\ tokens[Len(tokens) - 3].token = "LeftBlockEnd"
    /\ tokens[Len(tokens) - 2].token = "Identifier"
    /\ eq_ignore_ascii_case(tokens[Len(tokens) - 2].slice,
                            <<"m", "o", "d", "u", "l", "e">>)
    /\ tokens[Len(tokens) - 1].token = "RightBlock"
    /\ tokens[Len(tokens)].token = "InputEnd"
    /\ \A k \in 1..(Len(tokens) - 4) : tokens[k].token # "LeftBlockEnd"

\* The text of the body of the CSS module the tokens are.
CssBody(tokens) ==
    Concat([k \in 1..(Len(tokens) - 11) |-> tokens[k + 6].slice])

\* C21: the block rule run at the opening of a CSS module succeeds, its
\* element is Null and its only exception is the style that is the text of
\* the body.
CssModuleStyle ==
    (/\ rPc = "done" /\ rOp.name = "rule" /\ rOp.rule = "block" /\ rPos = 1
     /\ IsCssModule(rTokens))
    => /\ rOut.result.kind = "ok"
       /\ rOut.result.element = Null
       /\ rOut.result.exceptions = <<Style(CssBody(rTokens))>>

---------------------------------------------------------------------------
(* Properties of the elements of bodies and of the tree *)

\* Whether Null is among the elements of the element, or of one of them.
RECURSIVE HoldsNull(_)
HoldsNull(element) ==
    /\ "elements" \in DOMAIN element
    /\ \E k \in DOMAIN element.elements :
          element.elements[k] = Null \/ HoldsNull(element.elements[k])

\* Whether the element is a block whose body was read as elements.
IsBodyBlock(element) == element.type \in {"Div", "Collapsible"}

\* In the top-level parse no element holds Null among the elements of a
\* body, at any depth; the element made at the end of the input is the
\* last one the parse makes, and the tree that is built holds the elements
\* before it and not that one.
TreeWithoutInputEnd ==
    /\ \A k \in DOMAIN pOutput : ~HoldsNull(pOutput[k])
    /\ (pPc = "parsing" /\ pLast.iter > 0
            /\ pTokens[pLast.start].token = "InputEnd")
        => /\ pPos > Len(pTokens)
           /\ pLast.end = pPos
    /\ pPc = "done"
        => /\ pTokens[pLast.start].token = "InputEnd"
           /\ pTree.elements = SubSeq(pOutput, 1, Len(pOutput) - 1)
           /\ \A k \in DOMAIN pTree.elements : ~HoldsNull(pTree.elements[k])

\* A tree is built whose first element is a block with a body that was
\* read as elements, with a comment in it and some text kept.
TreeWithoutInputEndWitness ==
    /\ pPc = "done"
    /\ Len(pTree.elements) >= 1
    /\ IsBodyBlock(pTree.elements[1])
    /\ pTree.elements[1].elements # <<>>
    /\ \E k \in DOMAIN pTokens : pTokens[k].token = "RightComment"

\* C24: the list of elements that the collection of a body returns holds
\* no Null, neither as one of the elements nor inside one of them: the
\* list of get_body_elements_no_paragraphs of the block parser, and the
\* body of the block that the block rule returns.
BodyListsWithoutNull ==
    /\ (rPc = "done" /\ rOp.name = "get_body_elements_no_paragraphs"
            /\ rOut.result.kind = "ok")
        => \A k \in DOMAIN rOut.result.elements :
              /\ rOut.result.elements[k] # Null
              /\ ~HoldsNull(rOut.result.elements[k])
    /\ (rPc = "done" /\ rOp.name = "rule" /\ rOut.result.kind = "ok")
        => ~HoldsNull(rOut.result.element)

\* C29: when the loop of parse has run out of tokens, the elements it
\* hands to from_element_result are not empty and end with the Null made
\* at the token InputEnd; and the tree that is built holds the elements
\* before that one, in their order, and the styles gathered.
TreeFromElements ==
    /\ (pPc = "parsing" /\ pPos > Len(pTokens))
        => /\ pOutput # <<>>
           /\ pOutput[Len(pOutput)] = Null
           /\ pTokens[pLast.start].token = "InputEnd"
    /\ pPc = "done"
        => /\ pTree.elements = SubSeq(pOutput, 1, Len(pOutput) - 1)
           /\ pTree.styles = pStyles

---------------------------------------------------------------------------
(* Properties of the subscript rule *)

\* The first token after pos that is a subscript marker or the end of the
\* input: where the collection of the rule run at pos stops at the latest.
RECURSIVE ScriptStop(_, _)
ScriptStop(tokens, pos) ==
    IF tokens[pos + 1].token \in {"Subscript", "InputEnd"} THEN pos + 1
    ELSE ScriptStop(tokens, pos + 1)

\* Between the marker at pos and the next one there is a paragraph break.
ScriptBroken(tokens, pos) ==
    \E k \in (pos + 1)..(ScriptStop(tokens, pos) - 1) :
        tokens[k].token = "ParagraphBreak"

\* A space stands right before the next marker.
ScriptSpaceBefore(tokens, pos) ==
    /\ tokens[ScriptStop(tokens, pos)].token = "Subscript"
    /\ tokens[ScriptStop(tokens, pos) - 1].token = "Whitespace"

\* A space stands right after the next marker.
ScriptSpaceAfter(tokens, pos) ==
    /\ tokens[ScriptStop(tokens, pos)].token = "Subscript"
    /\ tokens[ScriptStop(tokens, pos) + 1].token = "Whitespace"

\* C25: the subscript rule fails when the tokens it collects hold a
\* paragraph break, a space right before the marker that would close the
\* container, or that marker right before a space.
ScriptAborts ==
    (/\ rPc = "done" /\ rOp.name = "subscript"
     /\ \/ ScriptBroken(rTokens, rPos)
        \/ ScriptSpaceBefore(rTokens, rPos)
        \/ ScriptSpaceAfter(rTokens, rPos))
    => rOut.result.kind = "err"

---------------------------------------------------------------------------
(* Properties of evaluate *)

\* C26: evaluate of a token pair returns true exactly when the token the
\* parser stands at is of the first kind of the pair and the one after it
\* is of the second, false when there is no token after it, and leaves the
\* pointer of the parser where it was.
TokenPairEvaluated ==
    (rPc = "done" /\ rOp.name = "evaluate" /\ rOp.condition.type = "TokenPair")
    => /\ rOut.result
          <=> /\ rTokens[rPos].token = rOp.condition.current
              /\ rPos < Len(rTokens)
              /\ rTokens[rPos + 1].token = rOp.condition.next
       /\ rOut.pos = rPos

---------------------------------------------------------------------------
(* Properties of the miscellaneous pass of the preprocessor *)

\* The text without its comments, each taken from the leftmost opening
\* that an end follows to the nearest end after it.
RECURSIVE StripComments(_)
StripComments(input) ==
    LET ends(i) == {j \in (i + 4)..Len(input) : At(input, j, <<"-", "-", "]">>)}
        openings == {i \in 1..Len(input) :
                        At(input, i, <<"[", "!", "-", "-">>) /\ ends(i) # {}}
    IN  IF openings = {} THEN input
        ELSE StripComments(SubSeq(input, 1, Min(openings) - 1)
                           \o SubSeq(input, Min(ends(Min(openings))) + 3, Len(input)))

\* C22: the preprocessed text is what preprocessing makes of the text with
\* each comment removed from its opening to the nearest end after it, so
\* that what stands between two comments is kept.
CommentsNonGreedy ==
    Len(ppTrail) >= 2 => ppTrail[2] = preprocess(StripComments(ppTrail[1]))

\* Whether the pattern stands somewhere in the text.
Holds(input, pattern) == \E i \in 1..Len(input) : At(input, i, pattern)

\* C23: what the miscellaneous pass makes of a text holds no carriage
\* return, no tab, no backslash followed by a newline and no three newlines
\* in a row, and neither begins nor ends with a newline.
MiscNormalForm ==
    Len(ppTrail) >= 2
    => LET output == MiscSubstitute(ppTrail[1])
       IN  /\ ~Holds(output, <<"\r">>)
           /\ ~Holds(output, <<"\t">>)
           /\ ~Holds(output, <<"\\", "\n">>)
           /\ ~Holds(output, <<"\n", "\n", "\n">>)
           /\ output # <<>> => output[1] # "\n" /\ output[Len(output)] # "\n"
           /\ ppTrail[2] = TypographySubstitute(output)

MiscNormalFormWitness ==
    /\ Len(ppTrail) >= 2
    /\ ppTrail[1] = <<"a", "\n", "\n", "\n", "a">>
    /\ MiscSubstitute(ppTrail[1]) = <<"a", "\n", "\n", "a">>

====
